---- MODULE Spec2Model ----
(***************************************************************************)
(* Verification model of the MLAI crawler variants.                        *)
(*                                                                         *)
(*   Spec          the batch crawler of Crawler-v02.py                     *)
(*                 (EnhancedCrawler.crawl and the coroutines it gathers)   *)
(*   SpecThreaded  the thread-pool crawler of Crawler2.py                  *)
(*                 (Crawler.crawl, Crawler.crawl_page, DatabaseHandler)    *)
(*   SpecUrls      the URL functions of Crawler-v02.py applied to one      *)
(*                 href: _normalize_url, _is_valid_url, _extract_links,    *)
(*                 get_file_category, and _process_url of Code.py and      *)
(*                 crawler4.py, which classify the whole URL string        *)
(*   SpecPdf       PDFProcessor.extract_text_from_pdf of Crawler-v02.py    *)
(*   SpecLocked    the thread-pool crawler of crawler.py, whose crawl_page *)
(*                 tests and marks under the module lock                   *)
(*   SpecDepth     the depth-tracking crawler of Crawler3.py               *)
(*                 (WebCrawler.crawl, WebCrawler.crawl_url)                *)
(*                                                                         *)
(* A URL string is kept in the parsed form urlparse gives it: scheme,      *)
(* netloc, path, query, fragment.  The path is a sequence of tokens: "/"   *)
(* or a word; a word starting with "." is a file suffix.  Only URLs with   *)
(* a non-empty netloc occur in the two crawlers, so str.rstrip('/') of the *)
(* rebuilt string only ever removes tokens of the path there.              *)
(***************************************************************************)
EXTENDS Integers, Sequences, FiniteSets, TLC

----------------------------------------------------------------------------
(* Bounds of the model *)

MaxPagesBound == 4
MaxConcurrent == 2
MaxRetriesBound == 2
MaxLinks == 2

----------------------------------------------------------------------------
(* URLs *)

Url(n, p, q, f) == <<"https", n, p, q, f>>

\* the components urlparse gives
Scheme(u) == u[1]
Netloc(u) == u[2]
Path(u) == u[3]
Query(u) == u[4]
Fragment(u) == u[5]

\* variant: one trailing slash is removed
StripOneSlash(p) ==
  IF p # <<>> /\ p[Len(p)] = "/" THEN SubSeq(p, 1, Len(p) - 1) ELSE p

\* str.rstrip('/') on the path tokens
RECURSIVE RStripSlash(_)
RStripSlash(p) ==
  IF p # <<>> /\ p[Len(p)] = "/" THEN RStripSlash(SubSeq(p, 1, Len(p) - 1)) ELSE p

\* f"{parsed.scheme}://{parsed.netloc}{parsed.path}".rstrip('/'), as urlparse
\* reads the string again: query and fragment are dropped and the trailing
\* slashes stripped; without a netloc, the first word of the path comes to
\* stand after "://" and is read as the netloc ("mailto:x@y" becomes
\* "mailto://x@y"), while "mailto://" is stripped to "mailto:".  Applied to
\* URLs that have a scheme.
NormalizeDropQuery(u) ==
  LET p == RStripSlash(Path(u))
  IN IF Netloc(u) # "" \/ p = <<>> \/ p[1] = "/"
     THEN <<Scheme(u), Netloc(u), p, "", "">>
     ELSE <<Scheme(u), p[1], Tail(p), "", "">>

\* the path up to and including its last "/", "/" for the empty path
RECURSIVE BaseDir(_)
BaseDir(p) ==
  IF p = <<>> THEN <<"/">>
  ELSE IF p[Len(p)] = "/" THEN p ELSE BaseDir(SubSeq(p, 1, Len(p) - 1))

\* urllib.parse.urljoin(base, url) for a base with the scheme https: a URL of
\* another scheme is kept; one with a netloc takes the scheme of the base; an
\* empty path takes the path of the base (and its query, unless the URL has
\* one); an absolute path replaces that of the base; a relative path is
\* joined to the directory of the base path
urljoin(base, u) ==
  IF Scheme(u) # "" /\ Scheme(u) # Scheme(base) THEN u
  ELSE IF Netloc(u) # "" THEN <<Scheme(base), Netloc(u), Path(u), Query(u), Fragment(u)>>
  ELSE IF Path(u) = <<>>
       THEN <<Scheme(base), Netloc(base), Path(base),
              IF Query(u) # "" THEN Query(u) ELSE Query(base), Fragment(u)>>
  ELSE IF Path(u)[1] = "/"
       THEN <<Scheme(base), Netloc(base), Path(u), Query(u), Fragment(u)>>
  ELSE <<Scheme(base), Netloc(base), BaseDir(Path(base)) \o Path(u), Query(u),
         Fragment(u)>>

\* EnhancedCrawler._normalize_url, for self.base_url = base
_normalize_url(base, u) == NormalizeDropQuery(urljoin(base, u))

\* the wire forms a user may give as base_url
SeedBare == Url("site", <<>>, "", "")
SeedSlash == Url("site", <<"/">>, "", "")
Seeds == {SeedBare, SeedSlash}

\* the href values that occur on the pages of the site
HrefRoot == Url("site", <<"/">>, "", "")
HrefAQuery == Url("site", <<"/", "a">>, "q", "")
HrefDoc == Url("site", <<"/", "d", ".pdf">>, "", "")
HrefOther == Url("other", <<"/", "a">>, "", "")
HrefDoc2 == Url("site", <<"/", "a", "/", "d", ".pdf">>, "", "")
Hrefs == {HrefRoot, HrefAQuery, HrefDoc, HrefOther, HrefDoc2}

\* the sites crawled: one of pages that link to each other, to a file and to
\* another domain, one of files of the same name in two directories, and one
\* with a file that is linked from a page below the start page only
SiteLinks == {HrefRoot, HrefAQuery, HrefDoc, HrefOther}
SiteFiles == {HrefDoc, HrefDoc2}
SiteDeep == {HrefAQuery, HrefDoc, HrefDoc2}

AllUrls == Seeds \cup Hrefs \cup {_normalize_url(b, h) : b \in Seeds, h \in Hrefs}

\* an HTML body is identified by the set of anchors it holds; its MD5 digest
\* is taken to be collision-free, so the body stands for its digest
Bodies == {b \in SUBSET Hrefs : Cardinality(b) <= MaxLinks}

----------------------------------------------------------------------------
(* Classification and validation *)

\* FileHandler.downloadable_extensions
downloadable_extensions ==
  [document |-> {".pdf", ".doc", ".docx", ".txt", ".rtf", ".odt"},
   spreadsheet |-> {".xls", ".xlsx", ".csv", ".ods"},
   presentation |-> {".ppt", ".pptx", ".odp"},
   archive |-> {".zip", ".rar", ".7z", ".tar", ".gz"},
   image |-> {".jpg", ".jpeg", ".png", ".gif", ".bmp", ".svg"},
   audio |-> {".mp3", ".wav", ".ogg", ".m4a"},
   video |-> {".mp4", ".avi", ".mkv", ".mov"},
   code |-> {".py", ".js", ".html", ".css", ".java", ".cpp", ".h"},
   data |-> {".json", ".xml", ".yaml", ".sql"},
   ebook |-> {".epub", ".mobi", ".azw"},
   other |-> {}]

\* str.lower() on a token: the tokens of the model that have capitals
Lower(t) ==
  CASE t = "SITE" -> "site"
    [] t = "LOGIN" -> "login"
    [] t = ".JS" -> ".js"
    [] t = ".PDF" -> ".pdf"
    [] t = ".BIN" -> ".bin"
    [] OTHER -> t

\* the words of the model that are file suffixes: those of the table, one
\* that the table does not hold, and some written in capitals
SuffixWords ==
  UNION {downloadable_extensions[c] : c \in DOMAIN downloadable_extensions}
  \cup {".bin", ".JS", ".PDF", ".BIN"}

\* the tokens after the last "/" of a path without trailing slashes
RECURSIVE LastComponent(_)
LastComponent(p) ==
  IF p = <<>> \/ p[Len(p)] = "/" THEN <<>>
  ELSE Append(LastComponent(SubSeq(p, 1, Len(p) - 1)), p[Len(p)])

\* variant: the suffix as written, not lowercased
SuffixAsWritten(u) ==
  LET name == LastComponent(RStripSlash(Path(u)))
  IN IF Len(name) >= 2 /\ name[Len(name)] \in SuffixWords THEN name[Len(name)] ELSE ""

\* Path(urlparse(url).path).suffix.lower(): the suffix of the last component,
\* empty when the component is the suffix alone (a dot file)
PathSuffix(u) ==
  LET name == LastComponent(RStripSlash(Path(u)))
  IN IF Len(name) >= 2 /\ name[Len(name)] \in SuffixWords
     THEN Lower(name[Len(name)]) ELSE ""

\* FileHandler.get_file_category ("none" stands for None)
get_file_category(u) ==
  LET ext == PathSuffix(u)
      hit == {c \in DOMAIN downloadable_extensions : ext \in downloadable_extensions[c]}
  IN IF hit # {} THEN CHOOSE c \in hit : TRUE
     ELSE IF ext # "" THEN "other" ELSE "none"

\* FileHandler.is_downloadable_file
is_downloadable_file(u) == get_file_category(u) # "none"

\* a base_url whose host name holds a dot, as in the usage examples
HostWithDot == Url("example.com", <<>>, "", "")

\* the text from the last dot of a host name, a query or a fragment, empty
\* when the word holds no dot
WordSuffix(w) ==
  CASE w = "example.com" -> ".com"
    [] w = "v=1.2" -> ".2"
    [] OTHER -> ""

\* the query and the fragment as they stand at the end of the URL string
QueryString(u) == IF Query(u) # "" THEN "?" \o Lower(Query(u)) ELSE ""
FragmentString(u) == IF Fragment(u) # "" THEN "#" \o Lower(Fragment(u)) ELSE ""

\* Path(url).suffix.lower() of Code.py and crawler4.py, where url is the whole
\* URL string: the last component is what follows the last "/" of the string
\* (the host name when the path is empty, the query and the fragment
\* included), and the suffix is its text from the last dot on, when that dot
\* is neither its first nor its last character
SuffixOfString(u) ==
  LET bare == Query(u) = "" /\ Fragment(u) = ""
      p == IF bare THEN RStripSlash(Path(u)) ELSE Path(u)
      name == LastComponent(p)
      of_name == IF p = <<>> THEN WordSuffix(Netloc(u))
                 ELSE IF Len(name) >= 2 /\ name[Len(name)] \in SuffixWords
                      THEN Lower(name[Len(name)])
                 ELSE ""
  IN IF WordSuffix(Fragment(u)) # "" THEN WordSuffix(Fragment(u))
     ELSE IF WordSuffix(Query(u)) # "" THEN WordSuffix(Query(u)) \o FragmentString(u)
     ELSE IF of_name # "" THEN of_name \o QueryString(u) \o FragmentString(u)
     ELSE ""

\* FileHandler.get_file_category of Code.py and _get_file_category of
\* crawler4.py ("none" stands for None)
_get_file_category(u) ==
  LET ext == SuffixOfString(u)
      hit == {c \in DOMAIN downloadable_extensions : ext \in downloadable_extensions[c]}
  IN IF hit # {} THEN CHOOSE c \in hit : TRUE
     ELSE IF ext # "" THEN "other" ELSE "none"

\* _is_downloadable_file of crawler4.py
_is_downloadable_file(u) == _get_file_category(u) # "none"

\* the tokens of the URL string the excluded patterns are searched in
UrlTokens(u) == <<Scheme(u), Netloc(u)>> \o Path(u) \o <<Query(u), Fragment(u)>>

LoginWords == {"login", "logout", "signin", "signout", "auth"}
ExcludedSuffixes == {".css", ".js", ".json", ".xml"}

\* the last token of the URL string
LastToken(u) ==
  IF Fragment(u) # "" THEN Fragment(u)
  ELSE IF Query(u) # "" THEN Query(u)
  ELSE IF Path(u) # <<>> THEN Path(u)[Len(Path(u))] ELSE Netloc(u)

\* EnhancedCrawler._is_valid_url
_is_valid_url(u, domain) ==
  /\ ~(Netloc(u) # "" /\ Netloc(u) # domain)
  /\ ~(\E i \in 1..Len(UrlTokens(u)) : Lower(UrlTokens(u)[i]) \in LoginWords)
  /\ Fragment(u) = ""
  /\ Lower(LastToken(u)) \notin ExcludedSuffixes

\* EnhancedCrawler._extract_links for self.base_url = base: the set behind
\* list(set(links))
_extract_links(html, base) ==
  {l \in {_normalize_url(base, h) : h \in html} : _is_valid_url(l, Netloc(base))}

\* the orders in which list(set(links)) may yield a set
Orders(S) ==
  {s \in [1..Cardinality(S) -> S] : \A i, j \in 1..Cardinality(S) : s[i] = s[j] => i = j}

----------------------------------------------------------------------------
(* The batch crawler of Crawler-v02.py: state *)

MaxProxies == 2
MaxSpeed == 2
MaxHours == 1

VARIABLES
  base_url,             \* configuration, fixed by the constructor
  max_pages,
  concurrent_requests,
  max_retries,
  download_files,
  category_dirs,        \* environment: files/<category>/ exist after _setup_storage
  site,                 \* environment: the href values on the pages of the site
  run_hours,            \* environment: the update intervals that elapse during the run
  pc,                   \* where crawl() is: "loop", "gather", "post", "done", "aborted"
  queue,                \* the deque of crawl()
  seen_urls,
  failed_urls,
  content_hashes,
  errors,               \* crawl_stats['errors']
  pages_processed,      \* crawl_stats['pages_processed']
  downloaded_files,     \* the URLs of downloaded_files, all categories together
  batch_urls,           \* the batch being processed
  tasks,                \* the coroutines of the batch, one per batch_urls entry
  ri,                   \* position of the loop over zip(batch_urls, results)
  text_files,           \* URLs u with text/<md5(u)>.txt on disk
  meta_files,           \* <<u, kind>> with metadata/<md5(u)>[_file].json on disk
  stored_files,         \* <<path, u>>: the file at path under files/ was opened for u
  stats_written,        \* how often crawl_stats.json was written
  pages_crawled,        \* the pages_crawled value of crawl_stats.json
  proxies,              \* ProxyManager.proxies
  current_index,        \* ProxyManager.current_index
  update_due,           \* datetime.now() - last_update > update_interval
  speed,                \* proxy['speed'] of each entry, 0 when the key is absent
  proxy_stats,          \* ProxyManager.proxy_stats
  hours,                \* history: how often the update interval has elapsed
  last_given,           \* history: what the last get_proxy call returned
  last_refresh,         \* history: the last _update_proxies: probes, speeds, list
  attempts,             \* history: iterations of the retry loop per URL
  dispatched,           \* history: how often a URL was popped and dispatched
  dispatch_log,         \* history: the URLs in the order they were dispatched
  push_log,             \* history: the appends to the queue, as <<page, link>>
  reads,                \* history: <<u, b>> when the body b of page u was read
  kept_pages,           \* history: <<u, b>> when _fetch_url returned data for u
  returned,             \* history: URLs whose _process_url coroutine returned
  first404,             \* history: attempts made when the URL first answered 404
  hr_none,              \* history: URLs for which _handle_request returned None
  hr_errors,            \* history: errors counted by _handle_request per URL
  write_failed          \* history: URLs for which a write of text or metadata raised

config == <<base_url, max_pages, concurrent_requests, max_retries, download_files, category_dirs, site, run_hours>>
tracking == <<seen_urls, failed_urls, content_hashes, errors, pages_processed,
              downloaded_files>>
disk == <<text_files, meta_files, stored_files, stats_written, pages_crawled>>
proxyState == <<proxies, current_index, update_due, speed, proxy_stats, hours,
                last_given, last_refresh>>
history == <<attempts, dispatched, dispatch_log, push_log, reads, kept_pages, returned, first404,
             hr_none, hr_errors, write_failed>>
batch == <<batch_urls, tasks, ri>>
batchVars == <<config, pc, queue, tracking, disk, proxyState, history, batch>>

domain == Netloc(base_url)

NoBody == {}

\* the entries of the proxy list: those of the proxy file, and the direct
\* connection {"http": None, "https": None}
Direct == <<"direct">>
FileProxies == [k \in 1..MaxProxies |-> <<"proxy", k>>]
ProxyEntries == {FileProxies[k] : k \in 1..MaxProxies} \cup {Direct}

\* ProxyManager._load_proxies: the entries read from the file, or the direct
\* connection when none is loaded
_load_proxies(loaded) == IF loaded = <<>> THEN <<Direct>> ELSE loaded

\* a coroutine of _process_url: where it is suspended, the attempt number of
\* the for loop of _handle_request, the proxy get_proxy gave it, the list
\* _test_all_proxies iterates and its working_proxies, the response it
\* holds, what it returned
Task(u, p, a, b, k) ==
  [url |-> u, pc |-> p, attempt |-> a, body |-> b, kept |-> k, proxy |-> <<"none">>,
   probing |-> <<>>, working |-> <<>>]

\* variant: the whole queue is taken as one batch
WholeQueue(a, b) == b

\* min(a, b)
Min(a, b) == IF a < b THEN a ELSE b

Count(s, u) == Cardinality({i \in 1..Len(s) : s[i] = u})

\* the state after EnhancedCrawler.__init__ (and the first two lines of
\* crawl()) for the configuration cfg; pc0 is where crawl() is
BatchInit(cfg, pc0) ==
  /\ base_url = cfg[1]
  /\ max_pages = cfg[2]
  /\ concurrent_requests = cfg[3]
  /\ max_retries = cfg[4]
  /\ download_files = cfg[8]
  /\ category_dirs = (cfg[8] \/ cfg[9])
  /\ site = cfg[6]
  /\ run_hours = cfg[7]
  /\ pc = pc0
  /\ queue = <<base_url>>
  /\ seen_urls = {base_url}
  /\ failed_urls = {}
  /\ content_hashes = {}
  /\ errors = 0
  /\ pages_processed = 0
  /\ downloaded_files = {}
  /\ batch_urls = <<>>
  /\ tasks = <<>>
  /\ ri = 0
  /\ text_files = {}
  /\ meta_files = {}
  /\ stored_files = {}
  /\ stats_written = 0
  /\ pages_crawled = 0
  /\ proxies = _load_proxies(cfg[5])
  /\ current_index = 0
  /\ update_due = FALSE
  /\ speed = [e \in ProxyEntries |-> 0]
  /\ proxy_stats = [total_used |-> 0, successful_requests |-> 0, failed_requests |-> 0,
                    rotations |-> 0]
  /\ hours = 0
  /\ last_given = <<"none">>
  /\ last_refresh = <<>>
  /\ attempts = [u \in AllUrls |-> 0]
  /\ dispatched = [u \in AllUrls |-> 0]
  /\ dispatch_log = <<>>
  /\ push_log = <<>>
  /\ reads = {}
  /\ kept_pages = {}
  /\ returned = {}
  /\ first404 = [u \in AllUrls |-> 0]
  /\ hr_none = {}
  /\ hr_errors = [u \in AllUrls |-> 0]
  /\ write_failed = {}

----------------------------------------------------------------------------
(* The proxy manager of Crawler-v02.py *)

\* variant: the working proxies are kept in the order they were probed
KeepOrder(list, sp) == list

\* x put into a list sorted by sp, after the entries that are not slower
RECURSIVE InsertBySpeed(_, _, _)
InsertBySpeed(x, list, sp) ==
  IF list = <<>> THEN <<x>>
  ELSE IF sp[x] < sp[Head(list)] THEN <<x>> \o list
       ELSE <<Head(list)>> \o InsertBySpeed(x, Tail(list), sp)

\* sorted(working_proxies, key=lambda x: x.get('speed', float('inf'))), a
\* stable sort
RECURSIVE SortBySpeed(_, _)
SortBySpeed(list, sp) ==
  IF list = <<>> THEN <<>>
  ELSE InsertBySpeed(list[Len(list)], SortBySpeed(SubSeq(list, 1, Len(list) - 1), sp), sp)

\* the sub-lists of a list: the entries _test_all_proxies may find working
SubLists(list) ==
  {SelectSeq(list, LAMBDA e : e \in S) : S \in SUBSET {list[k] : k \in 1..Len(list)}}

\* _update_proxies: the list that replaces self.proxies
UpdatedProxies(working, sp) ==
  IF working # <<>> THEN SortBySpeed(working, sp) ELSE <<Direct>>

\* ProxyManager.record_result
record_result(stats, success) ==
  IF success THEN [stats EXCEPT !.successful_requests = @ + 1]
  ELSE [stats EXCEPT !.failed_requests = @ + 1]

\* the hour of update_interval passes
IntervalElapses ==
  /\ pc \in {"loop", "gather", "post"}
  /\ ~update_due
  /\ hours < run_hours
  /\ update_due' = TRUE
  /\ hours' = hours + 1
  /\ UNCHANGED <<config, pc, queue, tracking, disk, proxies, current_index, speed,
                 proxy_stats, last_given, last_refresh, history, batch>>

----------------------------------------------------------------------------
(* The batch crawler of Crawler-v02.py: the coroutines of a batch *)

Failures == {"404", "http_error", "transport"}

\* variant: the loop runs once more (range(self.max_retries + 1))
InRangeInclusive(attempt) == attempt <= max_retries

\* for attempt in range(self.max_retries)
InRange(attempt) == attempt < max_retries

\* if attempt == self.max_retries - 1
IsLastAttempt(attempt) == attempt = max_retries - 1

Running(i) == pc = "gather" /\ i \in DOMAIN tasks

\* _handle_request, the except clause: record_result(False), the bookkeeping
\* of the last attempt, then the coroutine sleeps; t is the coroutine, stats
\* the proxy_stats so far
Except(i, t, stats) ==
  /\ proxy_stats' = record_result(stats, FALSE)
  /\ IF IsLastAttempt(t.attempt)
     THEN /\ failed_urls' = failed_urls \cup {t.url}
          /\ errors' = errors + 1
          /\ hr_errors' = [hr_errors EXCEPT ![t.url] = @ + 1]
     ELSE UNCHANGED <<failed_urls, errors, hr_errors>>
  /\ tasks' = [tasks EXCEPT ![i] = [t EXCEPT !.pc = "sleep"]]

\* get_proxy from "if not self.proxies" on, with self.proxies = list: the
\* entry at current_index is handed out and the request is sent;
\* self.proxies[self.current_index] raises IndexError when the index is past
\* the end of the list, which the except clause of _handle_request handles
Rotate(i, t, list, stats) ==
  IF list = <<>>
  THEN /\ tasks' = [tasks EXCEPT ![i] = [t EXCEPT !.pc = "inflight", !.proxy = Direct]]
       /\ last_given' = Direct
       /\ proxy_stats' = stats
       /\ UNCHANGED <<current_index, failed_urls, errors, hr_errors>>
  ELSE IF current_index < Len(list)
  THEN /\ tasks' = [tasks EXCEPT ![i] = [t EXCEPT !.pc = "inflight",
                                                   !.proxy = list[current_index + 1]]]
       /\ last_given' = list[current_index + 1]
       /\ current_index' = (current_index + 1) % Len(list)
       /\ proxy_stats' = [stats EXCEPT !.rotations = @ + 1]
       /\ UNCHANGED <<failed_urls, errors, hr_errors>>
  ELSE /\ last_given' = <<"IndexError">>
       /\ Except(i, t, stats)
       /\ UNCHANGED current_index

\* _handle_request: an iteration of the for loop begins with get_proxy, which
\* counts the call and either starts _update_proxies or hands out an entry
StartAttempt(i) ==
  /\ Running(i)
  /\ tasks[i].pc = "request"
  /\ InRange(tasks[i].attempt)
  /\ attempts' = [attempts EXCEPT ![tasks[i].url] = @ + 1]
  /\ LET stats == [proxy_stats EXCEPT !.total_used = @ + 1]
     IN IF update_due
        THEN /\ tasks' = [tasks EXCEPT ![i].pc = "probe", ![i].probing = proxies]
             /\ proxy_stats' = stats
             /\ UNCHANGED <<current_index, last_given, failed_urls, errors, hr_errors>>
        ELSE Rotate(i, tasks[i], proxies, stats)
  /\ UNCHANGED <<config, pc, queue, seen_urls, content_hashes, pages_processed,
                 downloaded_files, disk, proxies, update_due, speed, hours, last_refresh,
                 batch_urls, ri, dispatched, dispatch_log, push_log, reads, kept_pages, returned,
                 first404, hr_none, write_failed>>

\* _test_all_proxies: the probes of the entries of self.proxies as it was when
\* _update_proxies began have answered; those that answered 200 have their
\* latency stored in proxy['speed'] and make up working_proxies
ProbesDone(i, working, sp) ==
  /\ Running(i)
  /\ tasks[i].pc = "probe"
  /\ working \in SubLists(tasks[i].probing)
  /\ speed' = [e \in ProxyEntries |->
                 IF \E k \in 1..Len(working) : working[k] = e THEN sp[e] ELSE speed[e]]
  /\ tasks' = [tasks EXCEPT ![i].pc = "update", ![i].working = working]
  /\ UNCHANGED <<config, pc, queue, tracking, disk, proxies, current_index, update_due,
                 proxy_stats, hours, last_given, last_refresh, history, batch_urls, ri>>

\* _update_proxies replaces the list and sets last_update; get_proxy goes on
\* and hands out an entry of the new list
UpdateDone(i) ==
  /\ Running(i)
  /\ tasks[i].pc = "update"
  /\ LET list == UpdatedProxies(tasks[i].working, speed)
     IN /\ proxies' = list
        /\ last_refresh' = <<tasks[i].working, speed, list>>
        /\ Rotate(i, [tasks[i] EXCEPT !.probing = <<>>, !.working = <<>>], list, proxy_stats)
  /\ update_due' = FALSE
  /\ UNCHANGED <<config, pc, queue, seen_urls, content_hashes, pages_processed,
                 downloaded_files, disk, speed, hours, batch_urls, ri, attempts,
                 dispatched, dispatch_log, push_log, reads, kept_pages, returned, first404, hr_none,
                 write_failed>>

\* _handle_request: the request raises (raise_for_status on a 4xx or 5xx, a
\* timeout, a transport error); the coroutine then sleeps
AttemptFails(i, kind) ==
  /\ Running(i)
  /\ tasks[i].pc = "inflight"
  /\ LET u == tasks[i].url
     IN first404' = IF kind = "404" /\ first404[u] = 0
                    THEN [first404 EXCEPT ![u] = attempts[u]]
                    ELSE first404
  /\ Except(i, tasks[i], proxy_stats)
  /\ UNCHANGED <<config, pc, queue, seen_urls, content_hashes, pages_processed,
                 downloaded_files, disk, proxies, current_index, update_due, speed,
                 hours, last_given, last_refresh, batch_urls, ri, attempts, dispatched, dispatch_log,
                 push_log, reads, kept_pages, returned, hr_none, write_failed>>

\* await asyncio.sleep(self.request_delay * (attempt + 1)): the next iteration
TaskWake(i) ==
  /\ Running(i)
  /\ tasks[i].pc = "sleep"
  /\ tasks' = [tasks EXCEPT ![i].pc = "request", ![i].attempt = @ + 1]
  /\ UNCHANGED <<config, pc, queue, tracking, disk, proxyState, history, batch_urls, ri>>

\* _handle_request: the for loop is over, return None; _download_file and
\* _fetch_url return None in turn
TaskExhausted(i) ==
  /\ Running(i)
  /\ tasks[i].pc = "request"
  /\ ~InRange(tasks[i].attempt)
  /\ hr_none' = hr_none \cup {tasks[i].url}
  /\ returned' = returned \cup {tasks[i].url}
  /\ tasks' = [tasks EXCEPT ![i].pc = "done"]
  /\ UNCHANGED <<config, pc, queue, tracking, disk, proxyState, batch_urls, ri, attempts,
                 dispatched, dispatch_log, push_log, reads, kept_pages, first404, hr_errors,
                 write_failed>>

\* the response passes raise_for_status: record_result(True), and
\* _handle_request returns it
Responded == record_result(proxy_stats, TRUE)

\* _handle_request returns a response to _fetch_url, whose content type is not
\* text/html: the page is skipped
AttemptSkipsPage(i) ==
  /\ Running(i)
  /\ tasks[i].pc = "inflight"
  /\ ~is_downloadable_file(tasks[i].url)
  /\ proxy_stats' = Responded
  /\ returned' = returned \cup {tasks[i].url}
  /\ tasks' = [tasks EXCEPT ![i].pc = "done"]
  /\ UNCHANGED <<config, pc, queue, tracking, disk, proxies, current_index, update_due,
                 speed, hours, last_given, last_refresh, batch_urls, ri, attempts,
                 dispatched, dispatch_log, push_log, reads, kept_pages, first404, hr_none, hr_errors,
                 write_failed>>

\* _handle_request returns a text/html response to _fetch_url, which awaits
\* response.text()
AttemptGetsPage(i, b) ==
  /\ Running(i)
  /\ tasks[i].pc = "inflight"
  /\ ~is_downloadable_file(tasks[i].url)
  /\ b \subseteq site
  /\ proxy_stats' = Responded
  /\ tasks' = [tasks EXCEPT ![i].pc = "read", ![i].body = b]
  /\ UNCHANGED <<config, pc, queue, tracking, disk, proxies, current_index, update_due,
                 speed, hours, last_given, last_refresh, batch_urls, ri, history>>

\* os.path.basename(urlparse(url).path)
Basename(u) == LastComponent(Path(u))

\* variant: no path is ever found to exist
PathExistsNever(path) == FALSE

\* os.path.exists(os.path.join(base_path, filename))
PathExists(path) == \E f \in stored_files : f[1] = path

\* the path under files/ of the name with the counter c: <name><ext> for
\* c = 0, <name>_<c><ext> otherwise
FilePath(category, name, c) == <<category, name, c>>

\* FileHandler.generate_safe_filename: the first counter whose name does not
\* exist in the directory of the category
generate_safe_filename(u, category) ==
  LET free(c) == ~PathExists(FilePath(category, Basename(u), c))
  IN FilePath(category, Basename(u),
              CHOOSE c \in 0..Cardinality(stored_files) :
                free(c) /\ \A d \in 0..(c - 1) : ~free(d))

\* _handle_request returns a response to _download_file, which generates the
\* file name, opens the file for writing and awaits the chunks of the body
AttemptGetsFile(i) ==
  /\ Running(i)
  /\ tasks[i].pc = "inflight"
  /\ is_downloadable_file(tasks[i].url)
  /\ category_dirs
  /\ proxy_stats' = Responded
  /\ stored_files' = stored_files \cup
       {<<generate_safe_filename(tasks[i].url, get_file_category(tasks[i].url)),
          tasks[i].url>>}
  /\ tasks' = [tasks EXCEPT ![i].pc = "download"]
  /\ UNCHANGED <<config, pc, queue, tracking, text_files, meta_files, stats_written,
                 pages_crawled, proxies, current_index, update_due, speed, hours,
                 last_given, last_refresh, batch_urls, ri, history>>

\* _handle_request returns a response to _download_file, and open() raises
\* FileNotFoundError because the directory of the category was not created;
\* the except clause records the URL as failed and returns None
OpenFileRaises(i) ==
  /\ Running(i)
  /\ tasks[i].pc = "inflight"
  /\ is_downloadable_file(tasks[i].url)
  /\ ~category_dirs
  /\ proxy_stats' = Responded
  /\ failed_urls' = failed_urls \cup {tasks[i].url}
  /\ errors' = errors + 1
  /\ returned' = returned \cup {tasks[i].url}
  /\ tasks' = [tasks EXCEPT ![i].pc = "done"]
  /\ UNCHANGED <<config, pc, queue, seen_urls, content_hashes, pages_processed,
                 downloaded_files, disk, proxies, current_index, update_due, speed,
                 hours, last_given, last_refresh, batch_urls, ri, attempts, dispatched, dispatch_log,
                 push_log, reads, kept_pages, first404, hr_none, hr_errors, write_failed>>

\* variant: the digest test is left out
DuplicateNever(b) == FALSE

\* if content_hash in self.content_hashes
IsDuplicate(b) == b \in content_hashes

\* _fetch_url after response.text(): the digest test, and the data returned
ReadBody(i) ==
  /\ Running(i)
  /\ tasks[i].pc = "read"
  /\ LET u == tasks[i].url
         b == tasks[i].body
     IN /\ reads' = reads \cup {<<u, b>>}
        /\ returned' = returned \cup {u}
        /\ IF IsDuplicate(b)
           THEN /\ tasks' = [tasks EXCEPT ![i].pc = "done"]
                /\ UNCHANGED <<content_hashes, pages_processed, kept_pages>>
           ELSE /\ content_hashes' = content_hashes \cup {b}
                /\ pages_processed' = pages_processed + 1
                /\ kept_pages' = kept_pages \cup {<<u, b>>}
                /\ tasks' = [tasks EXCEPT ![i].pc = "done", ![i].kept = TRUE]
  /\ UNCHANGED <<config, pc, queue, seen_urls, failed_urls, errors, downloaded_files, disk,
                 proxyState, batch_urls, ri, attempts, dispatched, dispatch_log, push_log, first404,
                 hr_none, hr_errors, write_failed>>

\* _fetch_url: response.text() or the parsing raises; the except clause counts
\* an error and returns None
ReadRaises(i) ==
  /\ Running(i)
  /\ tasks[i].pc = "read"
  /\ errors' = errors + 1
  /\ returned' = returned \cup {tasks[i].url}
  /\ tasks' = [tasks EXCEPT ![i].pc = "done"]
  /\ UNCHANGED <<config, pc, queue, seen_urls, failed_urls, content_hashes,
                 pages_processed, downloaded_files, disk, proxyState, batch_urls, ri,
                 attempts, dispatched, dispatch_log, push_log, reads, kept_pages, first404, hr_none,
                 hr_errors, write_failed>>

\* _download_file stores the file and returns its metadata; _process_url
\* writes <md5>_file.json and returns None
DownloadOk(i) ==
  /\ Running(i)
  /\ tasks[i].pc = "download"
  /\ downloaded_files' = downloaded_files \cup {tasks[i].url}
  /\ meta_files' = meta_files \cup {<<tasks[i].url, "file">>}
  /\ returned' = returned \cup {tasks[i].url}
  /\ tasks' = [tasks EXCEPT ![i].pc = "done"]
  /\ UNCHANGED <<config, pc, queue, seen_urls, failed_urls, content_hashes, errors,
                 pages_processed, text_files, stored_files, stats_written, pages_crawled,
                 proxyState, batch_urls, ri, attempts, dispatched, dispatch_log, push_log, reads,
                 kept_pages, first404, hr_none, hr_errors, write_failed>>

\* _download_file: storing the file raises; the except clause records the URL
\* as failed and returns None
DownloadRaises(i) ==
  /\ Running(i)
  /\ tasks[i].pc = "download"
  /\ failed_urls' = failed_urls \cup {tasks[i].url}
  /\ errors' = errors + 1
  /\ returned' = returned \cup {tasks[i].url}
  /\ tasks' = [tasks EXCEPT ![i].pc = "done"]
  /\ UNCHANGED <<config, pc, queue, seen_urls, content_hashes, pages_processed,
                 downloaded_files, disk, proxyState, batch_urls, ri, attempts, dispatched, dispatch_log,
                 push_log, reads, kept_pages, first404, hr_none, hr_errors, write_failed>>

\* _process_url: writing <md5>_file.json raises OSError; nothing catches it, so
\* asyncio.gather raises it into crawl() while the other coroutines of the
\* batch are where they are
FileMetaWriteRaises(i) ==
  /\ Running(i)
  /\ tasks[i].pc = "download"
  /\ downloaded_files' = downloaded_files \cup {tasks[i].url}
  /\ write_failed' = write_failed \cup {tasks[i].url}
  /\ tasks' = [tasks EXCEPT ![i].pc = "raised"]
  /\ pc' = "aborted"
  /\ UNCHANGED <<config, queue, seen_urls, failed_urls, content_hashes, errors,
                 pages_processed, disk, proxyState, batch_urls, ri, attempts, dispatched, dispatch_log,
                 push_log, reads, kept_pages, returned, first404, hr_none, hr_errors>>

----------------------------------------------------------------------------
(* The batch crawler of Crawler-v02.py: crawl() *)

\* crawl() is at the head of its loop: at the start, or when the loop over the
\* results of a batch is over and asyncio.sleep(self.request_delay) has returned
AtLoopHead == pc = "loop" \/ (pc = "post" /\ ri = Len(tasks) + 1)

\* while queue and len(self.seen_urls) < self.max_pages
LoopCondition == queue # <<>> /\ Cardinality(seen_urls) < max_pages

\* variant: the links are appended without the seen_urls test and mark
AppendUnmarked(q, seen, links) == [queue |-> q \o links, seen_urls |-> seen]

\* variant: a URL recorded in failed_urls counts as not claimed
RECURSIVE AppendReclaimingFailed(_, _, _)
AppendReclaimingFailed(q, seen, links) ==
  IF links = <<>> THEN [queue |-> q, seen_urls |-> seen]
  ELSE IF Head(links) \notin seen \/ Head(links) \in failed_urls
       THEN AppendReclaimingFailed(Append(q, Head(links)), seen \cup {Head(links)},
                                   Tail(links))
       ELSE AppendReclaimingFailed(q, seen, Tail(links))

\* for link in new_links: if link not in self.seen_urls: append, add
RECURSIVE AppendNewLinks(_, _, _)
AppendNewLinks(q, seen, links) ==
  IF links = <<>> THEN [queue |-> q, seen_urls |-> seen]
  ELSE IF Head(links) \notin seen
       THEN AppendNewLinks(Append(q, Head(links)), seen \cup {Head(links)}, Tail(links))
       ELSE AppendNewLinks(q, seen, Tail(links))

\* variant: the batch is taken from the right end of the deque
PopRight(q, n) ==
  [urls |-> [k \in 1..n |-> q[Len(q) + 1 - k]], rest |-> SubSeq(q, 1, Len(q) - n)]

\* [queue.popleft() for _ in range(batch_size)]
PopLeft(q, n) == [urls |-> SubSeq(q, 1, n), rest |-> SubSeq(q, n + 1, Len(q))]

\* batch_urls = [queue.popleft() for _ in range(batch_size)]; process_batch
\* creates one _process_url coroutine per URL
Dispatch ==
  /\ AtLoopHead
  /\ LoopCondition
  /\ LET batch_size == Min(concurrent_requests, Len(queue))
         urls == PopLeft(queue, batch_size).urls
     IN /\ batch_urls' = urls
        /\ queue' = PopLeft(queue, batch_size).rest
        /\ dispatch_log' = dispatch_log \o urls
        /\ tasks' = [i \in 1..batch_size |-> Task(urls[i], "request", 0, NoBody, FALSE)]
        /\ dispatched' = [u \in AllUrls |-> dispatched[u] + Count(urls, u)]
  /\ pc' = "gather"
  /\ ri' = 0
  /\ UNCHANGED <<config, tracking, disk, proxyState, attempts, push_log, reads,
                 kept_pages, returned, first404, hr_none, hr_errors, write_failed>>

\* await asyncio.gather(*tasks) returns: every coroutine has returned
GatherReturns ==
  /\ pc = "gather"
  /\ \A i \in DOMAIN tasks : tasks[i].pc = "done"
  /\ pc' = "post"
  /\ ri' = 1
  /\ UNCHANGED <<config, queue, tracking, disk, proxyState, history, batch_urls, tasks>>

AtResult == pc = "post" /\ ri \in DOMAIN tasks

\* for url, data in zip(batch_urls, results): data is None
ResultNone ==
  /\ AtResult
  /\ ~tasks[ri].kept
  /\ ri' = ri + 1
  /\ UNCHANGED <<config, pc, queue, tracking, disk, proxyState, history, batch_urls,
                 tasks>>

\* for url, data in zip(batch_urls, results): _save_data, then the new links
\* are queued in the order list(set(links)) yields them
ResultPage ==
  /\ AtResult
  /\ tasks[ri].kept
  /\ \E order \in Orders(_extract_links(tasks[ri].body, base_url)) :
     LET url == batch_urls[ri]
         new == AppendNewLinks(queue, seen_urls, order)
         pushed == SubSeq(new.queue, Len(queue) + 1, Len(new.queue))
     IN /\ text_files' = text_files \cup {url}
        /\ meta_files' = meta_files \cup {<<url, "page">>}
        /\ queue' = new.queue
        /\ seen_urls' = new.seen_urls
        /\ push_log' = push_log \o [k \in 1..Len(pushed) |-> <<url, pushed[k]>>]
  /\ ri' = ri + 1
  /\ UNCHANGED <<config, pc, failed_urls, content_hashes, errors, pages_processed,
                 downloaded_files, stored_files, stats_written, pages_crawled, proxyState,
                 batch_urls, tasks, attempts, dispatched, dispatch_log, reads, kept_pages, returned,
                 first404, hr_none, hr_errors, write_failed>>

\* _save_data raises OSError, on the text file or after it on the metadata
\* file; nothing in crawl() catches it
SaveRaises(text_done) ==
  /\ AtResult
  /\ tasks[ri].kept
  /\ text_files' = IF text_done THEN text_files \cup {batch_urls[ri]} ELSE text_files
  /\ write_failed' = write_failed \cup {batch_urls[ri]}
  /\ pc' = "aborted"
  /\ UNCHANGED <<config, queue, tracking, meta_files, stored_files, stats_written,
                 pages_crawled, proxyState, batch, attempts, dispatched, dispatch_log, push_log, reads,
                 kept_pages, returned, first404, hr_none, hr_errors>>

\* the loop is left: crawl_stats.json is written
Finish ==
  /\ AtLoopHead
  /\ ~LoopCondition
  /\ stats_written' = stats_written + 1
  /\ pages_crawled' = Cardinality(seen_urls)
  /\ pc' = "done"
  /\ UNCHANGED <<config, queue, tracking, text_files, meta_files, stored_files,
                 proxyState, history, batch>>

----------------------------------------------------------------------------
(* The thread-pool crawler of Crawler2.py: state *)

MaxWorkers == 2
MaxSitemapUrls == 1
MaxSitemaps == 2

VARIABLES
  max_workers,          \* configuration
  main_pc,              \* where Crawler.crawl is: "start", "submit", "wait", "done"
  url_queue,            \* self.queue, a queue.Queue
  visited_urls,         \* the rows of the table visited_urls
  futures,              \* the list futures of crawl(), as worker slots
  workers,              \* the crawl_page call of each slot of the pool
  page_gets,            \* history: crawl_page calls that went on to GET, per canonical URL
  http_gets,            \* history: the GET requests sent for pages, per URL requested
  output_files,         \* the URLs whose text was written under text/<domain>/
  sitemap_log,          \* history: what robots.txt and each sitemap gave
  sitemap_seeds         \* history: the URLs parse_sitemap returned

threaded == <<max_workers, main_pc, url_queue, visited_urls, futures, workers, page_gets,
              http_gets, output_files, sitemap_log, sitemap_seeds>>

VARIABLES
  in_base,              \* the base_url the URL functions are applied with
  in_href,              \* the href value they are applied to
  fn_pc,                \* "input", "normalized", "validated", "done", "classified", "routed"
  normalized,           \* _normalize_url(in_href)
  valid,                \* _is_valid_url(normalized)
  extracted,            \* _extract_links of a page whose one anchor is in_href
  renormalized,         \* _normalize_url(normalized)
  category,             \* get_file_category(in_href), "none" for None
  string_category,      \* Code.py, crawler4.py: _get_file_category(in_href), "none" for None
  route                 \* Code.py, crawler4.py: the call _process_url(in_href) makes

functions ==
  <<in_base, in_href, fn_pc, normalized, valid, extracted, renormalized, category,
    string_category, route>>

VARIABLES
  backend_output,       \* what each extraction library does with the PDF
  method_index,         \* position of the loop over methods.items()
  best_text,
  best_method,
  max_length,
  pdf_result            \* the pair extract_text_from_pdf returns

pdf == <<backend_output, method_index, best_text, best_method, max_length, pdf_result>>

VARIABLES
  module_lock,          \* crawler.py: the thread that holds the module-level lock, 0 for none
  db_lock,              \* crawler.py: the thread that holds DatabaseHandler.lock, 0 for none
  claimed,              \* history: crawl_page calls that marked the canonical URL visited
  checked               \* history: crawl_page calls that left the block under the lock

locks == <<module_lock, db_lock, claimed, checked>>

VARIABLES
  max_depth,            \* Crawler3.py: configuration, NoDepth for None
  pool_size,            \* Crawler3.py: max_workers of the executor
  crawl_pc,             \* where WebCrawler.crawl is: "loop", "raised"
  depth_queue,          \* self.url_queue, the pairs (url, depth)
  crawled_urls,         \* the rows of the table crawled_urls
  crawl_tasks,          \* the crawl_url calls submitted, in the order of submission
  saved,                \* the URLs whose text was written under html/ or pdf/
  url_gets,             \* history: GET requests made by crawl_url, per URL
  unrecorded_gets,      \* history: URLs requested while not in crawled_urls
  get_depths            \* history: the depths of the crawl_url calls that sent a GET

depthVars == <<max_depth, pool_size, crawl_pc, depth_queue, crawled_urls, crawl_tasks,
               saved, url_gets, unrecorded_gets, get_depths>>

vars == <<batchVars, threaded, functions, pdf, locks, depthVars>>

PageA == Url("site", <<"/", "a">>, "", "")

\* Crawler.start_url and the domain filter of get_domain_hyperlinks
start_url == SeedBare

\* Crawler.local_domain and Crawler.base_url
local_domain == Netloc(start_url)
start_base_url == Url(local_domain, <<>>, "", "")

\* the href values on the pages: absolute on the domain, with a query and
\* on another host, and relative to the page
RelativeA == <<"", "", <<"a">>, "", "">>
PageHrefs == {PageA, HrefAQuery, HrefOther, RelativeA}

\* the <loc> entries the sitemaps may hold: URLs of the site and one of
\* another host
SitemapLocs == {SeedBare, PageA, HrefOther}

\* str.rstrip('/') of the URL string: the slashes that end the string
RStripString(u) ==
  IF Query(u) = "" /\ Fragment(u) = ""
  THEN <<Scheme(u), Netloc(u), RStripSlash(Path(u)), "", "">>
  ELSE u

\* get_domain_hyperlinks: a link that matches HTTP_URL_PATTERN
IsHttpUrl(link) == Scheme(link) \in {"http", "https"} /\ Netloc(link) # ""

\* get_domain_hyperlinks: the links that are dropped, absolute ones of
\* another host and those that start with "#" or "mailto:"
Dropped(link) ==
  \/ IsHttpUrl(link) /\ Netloc(link) # local_domain
  \/ ~IsHttpUrl(link) /\ Scheme(link) = "mailto"
  \/ ~IsHttpUrl(link) /\ Scheme(link) = "" /\ Netloc(link) = "" /\ Path(link) = <<>>
       /\ Query(link) = "" /\ Fragment(link) # ""

\* get_domain_hyperlinks: clean_link before the slashes are stripped
CleanLink(url, link) ==
  IF IsHttpUrl(link) THEN link
  ELSE IF Netloc(link) = "" /\ Path(link) # <<>> /\ Path(link)[1] = "/"
       THEN urljoin(start_base_url, link)
  ELSE urljoin(url, link)

\* Crawler.get_domain_hyperlinks(url) for a page whose anchors are hrefs
get_domain_hyperlinks(url, hrefs) ==
  {RStripString(CleanLink(url, link)) : link \in {h \in hrefs : ~Dropped(h)}}

\* the links get_domain_hyperlinks returns for the pages of the domain
DomainLinks == {PageA, HrefAQuery}
ThreadUrls == {start_url} \cup DomainLinks \cup SitemapLocs

\* Crawler.normalize_url
normalize_url(u) == NormalizeDropQuery(u)

Slots == 1..MaxWorkers

Idle == [url |-> start_url, pc |-> "idle", links |-> {}]

\* sequences over S of length at most n
RECURSIVE SeqsUpTo(_, _)
SeqsUpTo(S, n) ==
  IF n = 0 THEN {<<>>}
  ELSE SeqsUpTo(S, n - 1) \cup {Append(q, x) : q \in {r \in SeqsUpTo(S, n - 1) : Len(r) = n - 1}, x \in S}

\* the state after Crawler.__init__; pc0 is where crawl() is
ThreadedInit(mw, pc0) ==
  /\ max_workers = mw
  /\ main_pc = pc0
  /\ url_queue = <<start_url>>
  /\ visited_urls = {}
  /\ futures = <<>>
  /\ workers = [w \in Slots |-> Idle]
  /\ page_gets = [u \in ThreadUrls |-> 0]
  /\ http_gets = [u \in ThreadUrls |-> 0]
  /\ output_files = {}
  /\ sitemap_log = <<>>
  /\ sitemap_seeds = <<>>

----------------------------------------------------------------------------
(* The thread-pool crawler of Crawler2.py: crawl() and crawl_page() *)

\* DatabaseHandler.is_visited, one SELECT under the lock
is_visited(u) == u \in visited_urls

\* what the GET of a sitemap may give: the request raises, the content type is
\* not XML, the XML is not well-formed, a <loc> holds no text (loc.text is
\* None) after some <loc> entries were read, or a sitemap with its <loc>
\* entries
SitemapErrors == {"unreachable", "not_xml", "malformed", "empty_loc"}
SitemapOutcomes ==
  [kind : {"unreachable", "not_xml", "malformed"}, locs : {<<>>}]
  \cup [kind : {"empty_loc", "xml"}, locs : SeqsUpTo(SitemapLocs, MaxSitemapUrls)]

\* what the GET of robots.txt may give: the request raises, or a text that
\* names some sitemaps
RobotsOutcomes ==
  [kind : {"unreachable"}, sitemaps : {<<>>}]
  \cup [kind : {"text"}, sitemaps : SeqsUpTo(SitemapOutcomes, MaxSitemaps)]

\* Crawler.find_sitemaps: the Sitemap: lines of robots.txt, [] when the
\* request raises
find_sitemaps(robots) == IF robots.kind = "text" THEN robots.sitemaps ELSE <<>>

\* variant: the <loc> texts read before an exception are returned
parse_sitemap_partial(sitemap) == sitemap.locs

\* Crawler.parse_sitemap: the <loc> texts, [] after a warning or an exception
parse_sitemap(sitemap) == IF sitemap.kind = "xml" THEN sitemap.locs ELSE <<>>

\* the URLs parse_sitemap returns for the sitemaps in turn
RECURSIVE SitemapUrls(_)
SitemapUrls(sitemaps) ==
  IF sitemaps = <<>> THEN <<>>
  ELSE parse_sitemap(Head(sitemaps)) \o SitemapUrls(Tail(sitemaps))

\* crawl(): the sitemap URLs that are not visited are put on the queue
LoadSitemaps ==
  /\ main_pc = "start"
  /\ \E robots \in RobotsOutcomes :
       LET sitemaps == find_sitemaps(robots)
           urls == SitemapUrls(sitemaps)
       IN /\ url_queue' = url_queue \o SelectSeq(urls, LAMBDA u : ~is_visited(normalize_url(u)))
          /\ sitemap_seeds' = urls
          /\ sitemap_log' = IF robots.kind = "unreachable" THEN <<"robots_unreachable">>
                            ELSE [k \in 1..Len(sitemaps) |-> sitemaps[k].kind]
  /\ main_pc' = "submit"
  /\ UNCHANGED <<max_workers, visited_urls, futures, workers, page_gets, http_gets, output_files>>

\* the inner while loop: url = self.queue.get(); executor.submit(crawl_page, url)
Submit(w) ==
  /\ main_pc = "submit"
  /\ url_queue # <<>>
  /\ Len(futures) < max_workers
  /\ workers[w].pc = "idle"
  /\ \A v \in Slots : v < w => workers[v].pc # "idle"
  /\ workers' = [workers EXCEPT ![w] = [url |-> Head(url_queue), pc |-> "check", links |-> {}]]
  /\ futures' = Append(futures, w)
  /\ url_queue' = Tail(url_queue)
  /\ UNCHANGED <<max_workers, sitemap_log, sitemap_seeds, main_pc, visited_urls, page_gets, http_gets, output_files>>

\* the inner while loop ends; as_completed(futures) is entered
SubmitEnd ==
  /\ main_pc = "submit"
  /\ url_queue = <<>> \/ Len(futures) >= max_workers
  /\ main_pc' = "wait"
  /\ UNCHANGED <<max_workers, sitemap_log, sitemap_seeds, url_queue, visited_urls, futures, workers, page_gets, http_gets,
                 output_files>>

\* for future in as_completed(futures): futures.remove(future)
Join(w) ==
  /\ main_pc = "wait"
  /\ \E k \in 1..Len(futures) : futures[k] = w
  /\ workers[w].pc = "finished"
  /\ futures' = SelectSeq(futures, LAMBDA v : v # w)
  /\ workers' = [workers EXCEPT ![w] = Idle]
  /\ UNCHANGED <<max_workers, sitemap_log, sitemap_seeds, main_pc, url_queue, visited_urls, page_gets, http_gets, output_files>>

\* every future is done; time.sleep(1); while not self.queue.empty() or futures
NextRound ==
  /\ main_pc = "wait"
  /\ futures = <<>>
  /\ main_pc' = IF url_queue # <<>> THEN "submit" ELSE "done"
  /\ UNCHANGED <<max_workers, sitemap_log, sitemap_seeds, url_queue, visited_urls, futures, workers, page_gets, http_gets,
                 output_files>>

\* crawl_page: if self.db.is_visited(normalized_url): return
CheckVisited(w) ==
  /\ workers[w].pc = "check"
  /\ workers' = [workers EXCEPT ![w].pc =
                   IF is_visited(normalize_url(workers[w].url)) THEN "finished" ELSE "mark"]
  /\ UNCHANGED <<max_workers, sitemap_log, sitemap_seeds, main_pc, url_queue, visited_urls, futures, page_gets, http_gets,
                 output_files>>

\* crawl_page: self.db.mark_as_visited(normalized_url), INSERT OR IGNORE
\* under the lock
MarkVisited(w) ==
  /\ workers[w].pc = "mark"
  /\ visited_urls' = visited_urls \cup {normalize_url(workers[w].url)}
  /\ workers' = [workers EXCEPT ![w].pc = "get"]
  /\ UNCHANGED <<max_workers, sitemap_log, sitemap_seeds, main_pc, url_queue, futures, page_gets, http_gets, output_files>>

\* crawl_page: the GET answers 404, raises, or yields a content type that
\* is neither PDF nor HTML
GetWithoutPage(w) ==
  /\ workers[w].pc = "get"
  /\ page_gets' = [page_gets EXCEPT ![normalize_url(workers[w].url)] = @ + 1]
  /\ http_gets' = [http_gets EXCEPT ![workers[w].url] = @ + 1]
  /\ workers' = [workers EXCEPT ![w].pc = "finished"]
  /\ UNCHANGED <<max_workers, sitemap_log, sitemap_seeds, main_pc, url_queue, visited_urls, futures, output_files>>

\* crawl_page: the GET yields HTML and the text is written; no redirect is
\* followed, so final_url is the URL requested
GetPage(w) ==
  /\ workers[w].pc = "get"
  /\ page_gets' = [page_gets EXCEPT ![normalize_url(workers[w].url)] = @ + 1]
  /\ http_gets' = [http_gets EXCEPT ![workers[w].url] = @ + 1]
  /\ output_files' = output_files \cup {workers[w].url}
  /\ workers' = [workers EXCEPT ![w].pc = "hyperlinks"]
  /\ UNCHANGED <<max_workers, sitemap_log, sitemap_seeds, main_pc, url_queue, visited_urls, futures>>

\* crawl_page: new_links = self.get_domain_hyperlinks(final_url), where
\* get_hyperlinks sends its own GET for the page; hrefs are the anchors of the
\* answer, none when the request raises or the answer is not HTML
GetHyperlinks(w, hrefs) ==
  /\ workers[w].pc = "hyperlinks"
  /\ http_gets' = [http_gets EXCEPT ![workers[w].url] = @ + 1]
  /\ workers' = [workers EXCEPT ![w].pc = "links",
                                ![w].links = get_domain_hyperlinks(workers[w].url, hrefs)]
  /\ UNCHANGED <<max_workers, sitemap_log, sitemap_seeds, main_pc, url_queue, visited_urls, futures,
                 page_gets, output_files>>

\* crawl_page: for link in new_links: if not visited, self.queue.put(link)
PutLink(w, link) ==
  /\ workers[w].pc = "links"
  /\ link \in workers[w].links
  /\ url_queue' = IF is_visited(normalize_url(link)) THEN url_queue ELSE Append(url_queue, link)
  /\ workers' = [workers EXCEPT ![w].links = @ \ {link}]
  /\ UNCHANGED <<max_workers, sitemap_log, sitemap_seeds, main_pc, visited_urls, futures, page_gets, http_gets, output_files>>

\* crawl_page returns after the loop over new_links
LinksDone(w) ==
  /\ workers[w].pc = "links"
  /\ workers[w].links = {}
  /\ workers' = [workers EXCEPT ![w].pc = "finished"]
  /\ UNCHANGED <<max_workers, sitemap_log, sitemap_seeds, main_pc, url_queue, visited_urls, futures, page_gets, http_gets,
                 output_files>>

----------------------------------------------------------------------------
(* The URL functions of Crawler-v02.py applied to one href *)

MaxSlashes == 2

\* n trailing slashes
Slashes(n) == [k \in 1..n |-> "/"]

\* the values of base_url: a site with and without a path, and a site whose
\* host name holds one of the excluded words
Bases ==
  Seeds \cup {Url("site", <<"/", "dir", "/", "page">>, "", ""), Url("auth", <<>>, "", "")}

\* the href values: absolute with a query, a fragment, trailing slashes,
\* capitals in the host or the path, excluded words and suffixes, another
\* host, another scheme; relative; empty; mailto: with and without an address
HrefInputs ==
  Hrefs
  \cup {Url("site", <<"/", "a">> \o Slashes(n), "", "") : n \in 0..MaxSlashes}
  \cup {<<"", "", <<"a">> \o Slashes(n), "", "">> : n \in 0..MaxSlashes}
  \cup {Url("site", <<"/", "a">>, "", "f"),
        Url("SITE", <<"/", "a">>, "", ""),
        Url("site", <<"/", "login">>, "", ""),
        Url("site", <<"/", "LOGIN">>, "", ""),
        Url("site", <<"/", "s", ".js">>, "", ""),
        Url("site", <<"/", "s", ".JS">>, "", ""),
        Url("site", <<"/", "d", ".PDF">>, "q", "f"),
        Url("other", <<"/", "d", ".pdf">>, "", ""),
        Url("site", <<"/", "d", ".pdf", "/">>, "", ""),
        Url("site", <<"/", "d", ".pdf", "/", "b">>, "", ""),
        Url("site", <<"/", ".pdf">>, "", ""),
        Url("site", <<"/", "d", ".bin">>, "", ""),
        Url("site", <<"/", "d", ".BIN">>, "", ""),
        <<"", "", <<"d", ".pdf">>, "", "">>,
        Url("auth", <<"/", "a">>, "", ""),
        <<"http", "site", <<"/", "a">>, "", "">>,
        <<"", "", <<"/", "a">>, "", "">>,
        <<"", "", <<>>, "q", "">>,
        <<"", "", <<>>, "", "f">>,
        <<"", "", <<>>, "", "">>,
        <<"mailto", "", <<>>, "", "">>,
        <<"mailto", "", <<"/">>, "", "">>,
        <<"mailto", "", <<"x@y">>, "", "">>}
  \cup {SeedBare, HostWithDot, Url("example.com", <<"/">>, "", ""),
        Url("example.com", <<"/", "a">>, "", ""),
        Url("site", <<"/", "a">>, "v=1.2", ""),
        Url("site", <<"/", "a", "/">>, "q", ""),
        Url("site", <<"/", "d", ".pdf">>, "q", "")}

\* the URL functions have not been applied (pc0 = "input") or are not in use
FunctionsInit(base, href, pc0) ==
  /\ in_base = base
  /\ in_href = href
  /\ fn_pc = pc0
  /\ normalized = <<>>
  /\ valid = FALSE
  /\ extracted = {}
  /\ renormalized = <<>>
  /\ category = ""
  /\ string_category = ""
  /\ route = ""

\* url = self._normalize_url(anchor['href'])
Normalize ==
  /\ fn_pc = "input"
  /\ normalized' = _normalize_url(in_base, in_href)
  /\ fn_pc' = "normalized"
  /\ UNCHANGED <<in_base, in_href, valid, extracted, renormalized, category, string_category, route>>

\* if self._is_valid_url(url): links.append(url), and the list _extract_links
\* returns for the page
Validate ==
  /\ fn_pc = "normalized"
  /\ valid' = _is_valid_url(normalized, Netloc(in_base))
  /\ extracted' = _extract_links({in_href}, in_base)
  /\ fn_pc' = "validated"
  /\ UNCHANGED <<in_base, in_href, normalized, renormalized, category, string_category, route>>

\* _normalize_url applied to its own result
Renormalize ==
  /\ fn_pc = "validated"
  /\ renormalized' = _normalize_url(in_base, normalized)
  /\ fn_pc' = "done"
  /\ UNCHANGED <<in_base, in_href, normalized, valid, extracted, category,
                 string_category, route>>

\* category = self.file_handler.get_file_category(url)
Classify ==
  /\ fn_pc = "done"
  /\ category' = get_file_category(in_href)
  /\ fn_pc' = "classified"
  /\ UNCHANGED <<in_base, in_href, normalized, valid, extracted, renormalized,
                 string_category, route>>

\* _process_url of Code.py and crawler4.py: a downloadable URL is given to
\* _download_file, any other to _fetch_url
ProcessUrl ==
  /\ fn_pc = "classified"
  /\ string_category' = _get_file_category(in_href)
  /\ route' = IF _is_downloadable_file(in_href) THEN "_download_file" ELSE "_fetch_url"
  /\ fn_pc' = "routed"
  /\ UNCHANGED <<in_base, in_href, normalized, valid, extracted, renormalized, category>>

\* Crawler.normalize_url of crawler.py: the slashes are stripped from the path
\* before the string is built; read again by urlparse the result is the one
\* of the whole string stripped
normalize_url_of_path(u) == NormalizeDropQuery(u)

----------------------------------------------------------------------------
(* The thread-pool crawler of crawler.py: crawl_page() under the module lock. *)
(* Its queue, visited table, futures and pool threads are those of the      *)
(* thread-pool state above; crawl() has no sitemap step, and its loop over  *)
(* the futures is the one modelled by SubmitEnd, Join and NextRound.        *)

LocksInit ==
  /\ module_lock = 0
  /\ db_lock = 0
  /\ claimed = [u \in ThreadUrls |-> 0]
  /\ checked = [u \in ThreadUrls |-> 0]

\* variant: the module lock is taken without waiting for it
LockNeverHeld(holder) == TRUE

\* threading.Lock.acquire returns when no thread holds the lock
LockFree(holder) == holder = 0

\* crawl(): url = self.queue.get(); executor.submit(self.crawl_page, url)
SubmitLocked(w) ==
  /\ main_pc = "submit"
  /\ url_queue # <<>>
  /\ Len(futures) < max_workers
  /\ workers[w].pc = "idle"
  /\ \A v \in Slots : v < w => workers[v].pc # "idle"
  /\ workers' = [workers EXCEPT ![w] = [url |-> Head(url_queue), pc |-> "lock", links |-> {}]]
  /\ futures' = Append(futures, w)
  /\ url_queue' = Tail(url_queue)
  /\ UNCHANGED <<max_workers, main_pc, visited_urls, page_gets, http_gets, output_files, sitemap_log,
                 sitemap_seeds, locks>>

\* crawl_page: with lock, the module lock is acquired
EnterLock(w) ==
  /\ workers[w].pc = "lock"
  /\ LockFree(module_lock)
  /\ module_lock' = w
  /\ workers' = [workers EXCEPT ![w].pc = "check_db"]
  /\ UNCHANGED <<max_workers, main_pc, url_queue, visited_urls, futures, page_gets, http_gets,
                 output_files, sitemap_log, sitemap_seeds, db_lock, claimed, checked>>

\* DatabaseHandler.is_visited and mark_as_visited: with self.lock
EnterDb(w) ==
  /\ workers[w].pc \in {"check_db", "mark_db", "link_db"}
  /\ LockFree(db_lock)
  /\ db_lock' = w
  /\ workers' = [workers EXCEPT ![w].pc =
                   CASE workers[w].pc = "check_db" -> "check_select"
                     [] workers[w].pc = "mark_db" -> "mark_insert"
                     [] workers[w].pc = "link_db" -> "link_select"]
  /\ UNCHANGED <<max_workers, main_pc, url_queue, visited_urls, futures, page_gets, http_gets,
                 output_files, sitemap_log, sitemap_seeds, module_lock, claimed, checked>>

\* crawl_page: is_visited runs its SELECT and releases the database lock; a
\* visited URL makes crawl_page return, which releases the module lock
SelectVisited(w) ==
  /\ workers[w].pc = "check_select"
  /\ db_lock' = 0
  /\ LET u == normalize_url_of_path(workers[w].url)
     IN IF is_visited(u)
        THEN /\ module_lock' = 0
             /\ checked' = [checked EXCEPT ![u] = @ + 1]
             /\ workers' = [workers EXCEPT ![w].pc = "finished"]
        ELSE /\ workers' = [workers EXCEPT ![w].pc = "mark_db"]
             /\ UNCHANGED <<module_lock, checked>>
  /\ UNCHANGED <<max_workers, main_pc, url_queue, visited_urls, futures, page_gets, http_gets,
                 output_files, sitemap_log, sitemap_seeds, claimed>>

\* crawl_page: mark_as_visited runs its INSERT OR IGNORE and releases the
\* database lock; the with block ends and releases the module lock
InsertVisited(w) ==
  /\ workers[w].pc = "mark_insert"
  /\ LET u == normalize_url_of_path(workers[w].url)
     IN /\ visited_urls' = visited_urls \cup {u}
        /\ claimed' = [claimed EXCEPT ![u] = @ + 1]
        /\ checked' = [checked EXCEPT ![u] = @ + 1]
  /\ db_lock' = 0
  /\ module_lock' = 0
  /\ workers' = [workers EXCEPT ![w].pc = "get"]
  /\ UNCHANGED <<max_workers, main_pc, url_queue, futures, page_gets, http_gets, output_files,
                 sitemap_log, sitemap_seeds>>

\* crawl_page: for link in new_links: with lock
LinkLock(w) ==
  /\ workers[w].pc = "links"
  /\ workers[w].links # {}
  /\ LockFree(module_lock)
  /\ module_lock' = w
  /\ workers' = [workers EXCEPT ![w].pc = "link_db"]
  /\ UNCHANGED <<max_workers, main_pc, url_queue, visited_urls, futures, page_gets, http_gets,
                 output_files, sitemap_log, sitemap_seeds, db_lock, claimed, checked>>

\* crawl_page: if not self.db.is_visited(normalized_link): self.queue.put(link);
\* the database lock and then the module lock are released
LinkSelectPut(w, link) ==
  /\ workers[w].pc = "link_select"
  /\ link \in workers[w].links
  /\ url_queue' = IF is_visited(normalize_url_of_path(link)) THEN url_queue
                  ELSE Append(url_queue, link)
  /\ db_lock' = 0
  /\ module_lock' = 0
  /\ workers' = [workers EXCEPT ![w].pc = "links", ![w].links = @ \ {link}]
  /\ UNCHANGED <<max_workers, main_pc, visited_urls, futures, page_gets, http_gets, output_files,
                 sitemap_log, sitemap_seeds, claimed, checked>>

----------------------------------------------------------------------------
(* The depth-tracking thread-pool crawler of Crawler3.py *)

MaxTasks == 3
MaxDepth == 1

\* max_depth=None, the default
NoDepth == -1

\* the truth value of self.max_depth: None and 0 are false
Truthy(md) == md # NoDepth /\ md # 0

\* the URLs of the site: extract_links keeps the links of the domain as
\* urljoin gives them
DepthUrls == {start_url, PageA}

\* the state after WebCrawler.__init__; pc0 is where crawl() is
DepthInit(md, mw, pc0) ==
  /\ max_depth = md
  /\ pool_size = mw
  /\ crawl_pc = pc0
  /\ depth_queue = <<<<start_url, 0>>>>
  /\ crawled_urls = {}
  /\ crawl_tasks = <<>>
  /\ saved = {}
  /\ url_gets = [u \in DepthUrls |-> 0]
  /\ unrecorded_gets = {}
  /\ get_depths = {}

\* a crawl_url call runs on a thread of the pool
OnThread(t) == crawl_tasks[t].pc \notin {"pending", "done"}

\* crawl(): url, depth = self.url_queue.get(timeout=5);
\* executor.submit(self.crawl_url, url, depth)
SubmitUrl ==
  /\ crawl_pc = "loop"
  /\ depth_queue # <<>>
  /\ Len(crawl_tasks) < MaxTasks
  /\ crawl_tasks' = Append(crawl_tasks,
       [url |-> Head(depth_queue)[1], depth |-> Head(depth_queue)[2], pc |-> "pending",
        kind |-> "", links |-> {}])
  /\ depth_queue' = Tail(depth_queue)
  /\ UNCHANGED <<max_depth, pool_size, crawl_pc, crawled_urls, saved, url_gets,
                 unrecorded_gets, get_depths>>

\* crawl(): the queue stays empty for five seconds and get raises Empty; the
\* except clause names queue.Empty, but only the class Queue was imported
\* from the module queue, so evaluating it raises NameError and crawl() is
\* left through the with block of the executor
GetTimesOut ==
  /\ crawl_pc = "loop"
  /\ depth_queue = <<>>
  /\ crawl_pc' = "raised"
  /\ UNCHANGED <<max_depth, pool_size, depth_queue, crawled_urls, crawl_tasks, saved,
                 url_gets, unrecorded_gets, get_depths>>

\* a thread of the pool takes the next work item; crawl_url returns at once
\* when the depth is over max_depth
StartTask(t) ==
  /\ crawl_tasks[t].pc = "pending"
  /\ \A k \in 1..(t - 1) : crawl_tasks[k].pc # "pending"
  /\ Cardinality({k \in 1..Len(crawl_tasks) : OnThread(k)}) < pool_size
  /\ crawl_tasks' = [crawl_tasks EXCEPT ![t].pc =
                       IF Truthy(max_depth) /\ crawl_tasks[t].depth > max_depth
                       THEN "done" ELSE "check"]
  /\ UNCHANGED <<max_depth, pool_size, crawl_pc, depth_queue, crawled_urls, saved,
                 url_gets, unrecorded_gets, get_depths>>

\* DatabaseManager.is_crawled, one SELECT under the lock
is_crawled(u) == u \in crawled_urls

\* crawl_url: if self.db.is_crawled(url): return
CheckCrawled(t) ==
  /\ crawl_tasks[t].pc = "check"
  /\ crawl_tasks' = [crawl_tasks EXCEPT ![t].pc =
                       IF is_crawled(crawl_tasks[t].url) THEN "done" ELSE "get"]
  /\ UNCHANGED <<max_depth, pool_size, crawl_pc, depth_queue, crawled_urls, saved,
                 url_gets, unrecorded_gets, get_depths>>

\* the GET is sent
Requested(t) ==
  /\ url_gets' = [url_gets EXCEPT ![crawl_tasks[t].url] = @ + 1]
  /\ unrecorded_gets' = IF is_crawled(crawl_tasks[t].url) THEN unrecorded_gets
                        ELSE unrecorded_gets \cup {crawl_tasks[t].url}
  /\ get_depths' = get_depths \cup {crawl_tasks[t].depth}

\* crawl_url: session.get or raise_for_status raises; the except clause is
\* entered
GetRaises(t) ==
  /\ crawl_tasks[t].pc = "get"
  /\ Requested(t)
  /\ crawl_tasks' = [crawl_tasks EXCEPT ![t].pc = "mark"]
  /\ UNCHANGED <<max_depth, pool_size, crawl_pc, depth_queue, crawled_urls, saved>>

\* crawl_url: the GET yields a PDF or a page with some links of the domain
GetResponse(t, kind, links) ==
  /\ crawl_tasks[t].pc = "get"
  /\ Requested(t)
  /\ crawl_tasks' = [crawl_tasks EXCEPT ![t].pc = "persist", ![t].kind = kind,
                                         ![t].links = IF kind = "html" THEN links ELSE {}]
  /\ UNCHANGED <<max_depth, pool_size, crawl_pc, depth_queue, crawled_urls, saved>>

\* crawl_url: process_pdf or process_html writes the text; process_html
\* returns None when it fails, and no link is taken from the page
Persist(t, ok) ==
  /\ crawl_tasks[t].pc = "persist"
  /\ saved' = IF ok THEN saved \cup {crawl_tasks[t].url} ELSE saved
  /\ crawl_tasks' = [crawl_tasks EXCEPT ![t].pc =
                       IF crawl_tasks[t].kind = "html" /\ ok THEN "enqueue" ELSE "mark"]
  /\ UNCHANGED <<max_depth, pool_size, crawl_pc, depth_queue, crawled_urls, url_gets,
                 unrecorded_gets, get_depths>>

\* crawl_url: for link in extract_links: if not is_crawled(link): put
EnqueueLink(t, link) ==
  /\ crawl_tasks[t].pc = "enqueue"
  /\ link \in crawl_tasks[t].links
  /\ depth_queue' = IF is_crawled(link) THEN depth_queue
                    ELSE Append(depth_queue, <<link, crawl_tasks[t].depth + 1>>)
  /\ crawl_tasks' = [crawl_tasks EXCEPT ![t].links = @ \ {link}]
  /\ UNCHANGED <<max_depth, pool_size, crawl_pc, crawled_urls, saved, url_gets,
                 unrecorded_gets, get_depths>>

\* crawl_url: the loop over the links ends
EnqueueDone(t) ==
  /\ crawl_tasks[t].pc = "enqueue"
  /\ crawl_tasks[t].links = {}
  /\ crawl_tasks' = [crawl_tasks EXCEPT ![t].pc = "mark"]
  /\ UNCHANGED <<max_depth, pool_size, crawl_pc, depth_queue, crawled_urls, saved,
                 url_gets, unrecorded_gets, get_depths>>

\* crawl_url: self.db.mark_crawled(url), with status 0 in the except clause
MarkCrawled(t) ==
  /\ crawl_tasks[t].pc = "mark"
  /\ crawled_urls' = crawled_urls \cup {crawl_tasks[t].url}
  /\ crawl_tasks' = [crawl_tasks EXCEPT ![t].pc = "done"]
  /\ UNCHANGED <<max_depth, pool_size, crawl_pc, depth_queue, saved, url_gets,
                 unrecorded_gets, get_depths>>

----------------------------------------------------------------------------
(* PDFProcessor.extract_text_from_pdf of Crawler-v02.py *)

MaxTextLen == 2

\* the keys of methods, in the order of the dict
methods == <<"pymupdf", "pypdf2", "ocr">>

\* the texts a library may give: blanks and letters
Texts == UNION {[1..n -> {" ", "x"}] : n \in 0..MaxTextLen}

\* a library gives a text or raises
Raises == <<"raises">>
BackendOutcomes == Texts \cup {Raises}

\* _extract_with_pymupdf, _extract_with_pypdf2, _extract_with_ocr: the text,
\* "" when the library raises
extract_method(outcome) == IF outcome = Raises THEN <<>> ELSE outcome

\* str.strip()
RECURSIVE Strip(_)
Strip(text) ==
  IF text = <<>> THEN text
  ELSE IF text[1] = " " THEN Strip(Tail(text))
  ELSE IF text[Len(text)] = " " THEN Strip(SubSeq(text, 1, Len(text) - 1))
  ELSE text

\* variant: a text as long as the best one replaces it
LongerOrEqual(text_length, max) == text_length >= max /\ text_length > 0

\* if text_length > max_length
Longer(text_length, max) == text_length > max

PdfInit(outputs, index) ==
  /\ backend_output = outputs
  /\ method_index = index
  /\ best_text = <<>>
  /\ best_method = ""
  /\ max_length = 0
  /\ pdf_result = <<>>

\* one turn of the loop over methods.items()
TryMethod ==
  /\ method_index \in 1..Len(methods)
  /\ LET extracted_text == extract_method(backend_output[methods[method_index]])
         text_length == Len(Strip(extracted_text))
     IN IF Longer(text_length, max_length)
        THEN /\ max_length' = text_length
             /\ best_text' = extracted_text
             /\ best_method' = methods[method_index]
        ELSE UNCHANGED <<max_length, best_text, best_method>>
  /\ method_index' = method_index + 1
  /\ UNCHANGED <<backend_output, pdf_result>>

\* return best_text, best_method
ReturnBest ==
  /\ method_index = Len(methods) + 1
  /\ pdf_result = <<>>
  /\ pdf_result' = <<best_text, best_method>>
  /\ UNCHANGED <<backend_output, method_index, best_text, best_method, max_length>>

----------------------------------------------------------------------------
(* Specifications *)

\* the variables of the machines that do not run
notBatch == <<threaded, functions, pdf, locks, depthVars>>
notThreaded == <<batchVars, functions, pdf, locks, depthVars>>
notUrls == <<batchVars, threaded, pdf, locks, depthVars>>
notPdf == <<batchVars, threaded, functions, locks, depthVars>>
notLocked == <<batchVars, functions, pdf, depthVars>>
notDepth == <<batchVars, threaded, functions, pdf, locks>>

BatchOff == BatchInit(<<SeedBare, 0, 1, 0, <<>>, {}, 0, TRUE, FALSE>>, "off")
ThreadedOff == ThreadedInit(1, "off")
FunctionsOff == FunctionsInit(SeedBare, SeedBare, "off")
PdfOff == PdfInit([m \in {} |-> <<>>], 0)
DepthOff == DepthInit(0, 1, "off")

\* the runs checked: every configuration of the crawl on the site of pages,
\* without a proxy file and within the hour; a run with a proxy file and one
\* attempt per URL on the site of files, which outlasts the update interval;
\* runs with download_files off on the site of files, into a fresh output
\* directory and into one that an earlier run left the category directories
\* in; and runs that take one URL at a time on the site with the deep file
Configs ==
  (Seeds \X (0..MaxPagesBound) \X (1..MaxConcurrent) \X (0..MaxRetriesBound)
     \X {<<>>} \X {SiteLinks} \X {0} \X {TRUE} \X {FALSE})
  \cup ({SeedBare} \X {MaxPagesBound} \X {MaxConcurrent} \X {1}
          \X {FileProxies} \X {SiteFiles} \X {MaxHours} \X {TRUE} \X {FALSE})
  \cup ({SeedBare} \X {MaxPagesBound} \X {MaxConcurrent} \X {1}
          \X {<<>>} \X {SiteFiles} \X {0} \X {FALSE} \X BOOLEAN)
  \cup ({SeedBare} \X (0..MaxPagesBound) \X {1} \X {1}
          \X {<<>>} \X {SiteDeep} \X {0} \X {TRUE} \X {FALSE})

\* the batch crawler runs; the thread-pool crawler is not started
Init ==
  /\ \E cfg \in Configs : BatchInit(cfg, "loop")
  /\ ThreadedOff
  /\ FunctionsOff
  /\ PdfOff
  /\ LocksInit
  /\ DepthOff

Next ==
  \/ Dispatch /\ UNCHANGED notBatch
  \/ IntervalElapses /\ UNCHANGED notBatch
  \/ \E i \in 1..MaxConcurrent : StartAttempt(i) /\ UNCHANGED notBatch
  \/ \E i \in 1..MaxConcurrent, working \in SubLists(FileProxies) \cup {<<Direct>>},
        sp \in [ProxyEntries -> 1..MaxSpeed] :
       ProbesDone(i, working, sp) /\ UNCHANGED notBatch
  \/ \E i \in 1..MaxConcurrent : UpdateDone(i) /\ UNCHANGED notBatch
  \/ \E i \in 1..MaxConcurrent, kind \in Failures : AttemptFails(i, kind) /\ UNCHANGED notBatch
  \/ \E i \in 1..MaxConcurrent : TaskWake(i) /\ UNCHANGED notBatch
  \/ \E i \in 1..MaxConcurrent : TaskExhausted(i) /\ UNCHANGED notBatch
  \/ \E i \in 1..MaxConcurrent : AttemptSkipsPage(i) /\ UNCHANGED notBatch
  \/ \E i \in 1..MaxConcurrent, b \in Bodies : AttemptGetsPage(i, b) /\ UNCHANGED notBatch
  \/ \E i \in 1..MaxConcurrent : AttemptGetsFile(i) /\ UNCHANGED notBatch
  \/ \E i \in 1..MaxConcurrent : OpenFileRaises(i) /\ UNCHANGED notBatch
  \/ \E i \in 1..MaxConcurrent : ReadBody(i) /\ UNCHANGED notBatch
  \/ \E i \in 1..MaxConcurrent : ReadRaises(i) /\ UNCHANGED notBatch
  \/ \E i \in 1..MaxConcurrent : DownloadOk(i) /\ UNCHANGED notBatch
  \/ \E i \in 1..MaxConcurrent : DownloadRaises(i) /\ UNCHANGED notBatch
  \/ \E i \in 1..MaxConcurrent : FileMetaWriteRaises(i) /\ UNCHANGED notBatch
  \/ GatherReturns /\ UNCHANGED notBatch
  \/ ResultNone /\ UNCHANGED notBatch
  \/ ResultPage /\ UNCHANGED notBatch
  \/ \E text_done \in BOOLEAN : SaveRaises(text_done) /\ UNCHANGED notBatch
  \/ Finish /\ UNCHANGED notBatch

Spec == Init /\ [][Next]_vars

\* the thread-pool crawler runs; the batch crawler is not started
InitThreaded ==
  /\ BatchOff
  /\ \E mw \in 1..MaxWorkers : ThreadedInit(mw, "start")
  /\ FunctionsOff
  /\ PdfOff
  /\ LocksInit
  /\ DepthOff

NextThreaded ==
  \/ LoadSitemaps /\ UNCHANGED notThreaded
  \/ \E w \in Slots : Submit(w) /\ UNCHANGED notThreaded
  \/ SubmitEnd /\ UNCHANGED notThreaded
  \/ \E w \in Slots : Join(w) /\ UNCHANGED notThreaded
  \/ NextRound /\ UNCHANGED notThreaded
  \/ \E w \in Slots : CheckVisited(w) /\ UNCHANGED notThreaded
  \/ \E w \in Slots : MarkVisited(w) /\ UNCHANGED notThreaded
  \/ \E w \in Slots : GetWithoutPage(w) /\ UNCHANGED notThreaded
  \/ \E w \in Slots : GetPage(w) /\ UNCHANGED notThreaded
  \/ \E w \in Slots, hrefs \in SUBSET PageHrefs : GetHyperlinks(w, hrefs) /\ UNCHANGED notThreaded
  \/ \E w \in Slots, link \in ThreadUrls : PutLink(w, link) /\ UNCHANGED notThreaded
  \/ \E w \in Slots : LinksDone(w) /\ UNCHANGED notThreaded

SpecThreaded == InitThreaded /\ [][NextThreaded]_vars

\* the main thread and the pool threads keep running
SpecThreadedFair == SpecThreaded /\ WF_vars(NextThreaded)

\* the URL functions are applied to one href; the crawlers are not started
InitUrls ==
  /\ BatchOff
  /\ ThreadedOff
  /\ \E base \in Bases, href \in HrefInputs : FunctionsInit(base, href, "input")
  /\ PdfOff
  /\ LocksInit
  /\ DepthOff

NextUrls ==
  \/ Normalize /\ UNCHANGED notUrls
  \/ Validate /\ UNCHANGED notUrls
  \/ Renormalize /\ UNCHANGED notUrls
  \/ Classify /\ UNCHANGED notUrls
  \/ ProcessUrl /\ UNCHANGED notUrls

SpecUrls == InitUrls /\ [][NextUrls]_vars

\* extract_text_from_pdf is applied to one PDF
InitPdf ==
  /\ BatchOff
  /\ ThreadedOff
  /\ FunctionsOff
  /\ \E outputs \in [{methods[k] : k \in 1..Len(methods)} -> BackendOutcomes] :
       PdfInit(outputs, 1)
  /\ LocksInit
  /\ DepthOff

NextPdf ==
  \/ TryMethod /\ UNCHANGED notPdf
  \/ ReturnBest /\ UNCHANGED notPdf

SpecPdf == InitPdf /\ [][NextPdf]_vars

\* the thread-pool crawler of crawler.py runs
InitLocked ==
  /\ BatchOff
  /\ \E mw \in 1..MaxWorkers : ThreadedInit(mw, "submit")
  /\ FunctionsOff
  /\ PdfOff
  /\ LocksInit
  /\ DepthOff

NextLocked ==
  \/ \E w \in Slots : SubmitLocked(w) /\ UNCHANGED notLocked
  \/ SubmitEnd /\ UNCHANGED <<locks, notLocked>>
  \/ \E w \in Slots : Join(w) /\ UNCHANGED <<locks, notLocked>>
  \/ NextRound /\ UNCHANGED <<locks, notLocked>>
  \/ \E w \in Slots : EnterLock(w) /\ UNCHANGED notLocked
  \/ \E w \in Slots : EnterDb(w) /\ UNCHANGED notLocked
  \/ \E w \in Slots : SelectVisited(w) /\ UNCHANGED notLocked
  \/ \E w \in Slots : InsertVisited(w) /\ UNCHANGED notLocked
  \/ \E w \in Slots : GetWithoutPage(w) /\ UNCHANGED <<locks, notLocked>>
  \/ \E w \in Slots : GetPage(w) /\ UNCHANGED <<locks, notLocked>>
  \/ \E w \in Slots, hrefs \in SUBSET PageHrefs : GetHyperlinks(w, hrefs) /\ UNCHANGED <<locks, notLocked>>
  \/ \E w \in Slots : LinkLock(w) /\ UNCHANGED notLocked
  \/ \E w \in Slots, link \in DomainLinks : LinkSelectPut(w, link) /\ UNCHANGED notLocked
  \/ \E w \in Slots : LinksDone(w) /\ UNCHANGED <<locks, notLocked>>

SpecLocked == InitLocked /\ [][NextLocked]_vars

\* the depth-tracking crawler of Crawler3.py runs
InitDepth ==
  /\ BatchOff
  /\ ThreadedOff
  /\ FunctionsOff
  /\ PdfOff
  /\ LocksInit
  /\ \E md \in {NoDepth} \cup (0..MaxDepth), mw \in 1..MaxWorkers : DepthInit(md, mw, "loop")

NextDepth ==
  \/ SubmitUrl /\ UNCHANGED notDepth
  \/ GetTimesOut /\ UNCHANGED notDepth
  \/ \E t \in 1..Len(crawl_tasks) : StartTask(t) /\ UNCHANGED notDepth
  \/ \E t \in 1..Len(crawl_tasks) : CheckCrawled(t) /\ UNCHANGED notDepth
  \/ \E t \in 1..Len(crawl_tasks) : GetRaises(t) /\ UNCHANGED notDepth
  \/ \E t \in 1..Len(crawl_tasks), kind \in {"pdf", "html"}, links \in SUBSET DepthUrls :
       GetResponse(t, kind, links) /\ UNCHANGED notDepth
  \/ \E t \in 1..Len(crawl_tasks), ok \in BOOLEAN : Persist(t, ok) /\ UNCHANGED notDepth
  \/ \E t \in 1..Len(crawl_tasks), link \in DepthUrls : EnqueueLink(t, link) /\ UNCHANGED notDepth
  \/ \E t \in 1..Len(crawl_tasks) : EnqueueDone(t) /\ UNCHANGED notDepth
  \/ \E t \in 1..Len(crawl_tasks) : MarkCrawled(t) /\ UNCHANGED notDepth

SpecDepth == InitDepth /\ [][NextDepth]_vars

----------------------------------------------------------------------------
(* Claims about the batch crawler *)

\* how often u was put on the queue, the seed included
Pushes(u) ==
  Cardinality({k \in 1..Len(push_log) : push_log[k][2] = u})
    + (IF u = base_url THEN 1 ELSE 0)

\* C2: no URL is dispatched more than once: the queue holds no URL twice,
\* every queued URL is in seen_urls, and no URL is put on the queue a second
\* time
C2_AtMostOnceDispatch ==
  /\ \A i, j \in 1..Len(queue) : queue[i] = queue[j] => i = j
  /\ \A i \in 1..Len(queue) : queue[i] \in seen_urls
  /\ \A u \in AllUrls : dispatched[u] <= 1 /\ Pushes(u) <= 1
  /\ \A u \in AllUrls : Pushes(u) = 1 => u \in seen_urls

\* two saved pages with different bodies link to the same URL, which was
\* dispatched once
C2_Witness ==
  \E p1, p2 \in kept_pages :
    /\ p1[1] # p2[1]
    /\ {p1[1], p2[1]} \subseteq text_files
    /\ \E l \in _extract_links(p1[2], base_url) \cap _extract_links(p2[2], base_url) :
         dispatched[l] = 1 /\ l \in returned

\* C3: when crawl() has terminated, the number of claimed URLs, reported as
\* pages_crawled, does not exceed max_pages (max_pages >= 1)
C3_CapAtTermination ==
  (pc = "done" /\ max_pages >= 1) =>
    Cardinality(seen_urls) <= max_pages /\ pages_crawled <= max_pages

\* C4: the number of HTTP attempts made for a URL never exceeds max_retries
C4_AttemptsBounded == \A u \in AllUrls : attempts[u] <= max_retries

\* a URL used up all its attempts, more than one, and is recorded as failed
C4_Witness ==
  \E u \in AllUrls : attempts[u] = max_retries /\ max_retries >= 2 /\ u \in failed_urls

\* C5: after an attempt for a URL answered 404 no further attempt is made
\* for that URL
C5_NotFoundIsTerminal ==
  \A u \in AllUrls : first404[u] # 0 => attempts[u] = first404[u]

\* C6: whenever _handle_request returned None for a URL, the URL is in
\* failed_urls and _handle_request counted exactly one error for it, for every
\* max_retries
C6_ExhaustionRecorded ==
  \A u \in hr_none : u \in failed_urls /\ hr_errors[u] = 1

\* the pages whose body was read and found in content_hashes
Discarded == reads \ kept_pages

C8_OneResourcePerCanonicalUrl ==
  \A u1, u2 \in AllUrls :
    (_normalize_url(base_url, u1) = _normalize_url(base_url, u2) /\ u1 # u2) =>
      /\ ~(dispatched[u1] > 0 /\ dispatched[u2] > 0)
      /\ ~(u1 \in text_files /\ u2 \in text_files)

\* C9: when crawl() is left no coroutine of a batch is still in flight
C9_NoWorkerInFlightAtExit ==
  pc \in {"done", "aborted"} => \A i \in DOMAIN tasks : tasks[i].pc \in {"done", "raised"}

\* C10: when crawl() is left crawl_stats.json has been written exactly once
C10_StatsWrittenAtExit ==
  pc \in {"done", "aborted"} => stats_written = 1

----------------------------------------------------------------------------
(* Claims about the proxy manager and the stored files *)

\* C12: a get_proxy call made while no refresh is due returns the entry at
\* the cursor, advances the cursor by one modulo the length of the list and
\* increments rotations by one
C12_RoundRobinBetweenSweeps ==
  [][(proxy_stats'.total_used = proxy_stats.total_used + 1 /\ ~update_due) =>
       /\ current_index < Len(proxies)
       /\ last_given' = proxies[current_index + 1]
       /\ current_index' = (current_index + 1) % Len(proxies)
       /\ proxy_stats'.rotations = proxy_stats.rotations + 1]_vars

\* C13: after _update_proxies the list is not empty; it holds the entries
\* whose probe answered 200, by ascending speed, or the direct entry alone
\* when no probe answered 200
C13_RefreshedListSorted ==
  last_refresh # <<>> =>
    LET working == last_refresh[1]
        sp == last_refresh[2]
        list == last_refresh[3]
    IN /\ proxies = list
       /\ list # <<>>
       /\ working = <<>> => list = <<Direct>>
       /\ working # <<>> =>
            /\ Len(list) = Len(working)
            /\ {list[k] : k \in 1..Len(list)} = {working[k] : k \in 1..Len(working)}
            /\ \A k \in 1..(Len(list) - 1) : sp[list[k]] <= sp[list[k + 1]]

\* a refresh found every proxy of the file working and put the second, which
\* was faster, before the first
C13_Witness ==
  /\ last_refresh # <<>>
  /\ last_refresh[1] = FileProxies
  /\ Len(proxies) = MaxProxies
  /\ proxies[1] = FileProxies[2]
  /\ speed[proxies[1]] < speed[proxies[2]]

RECURSIVE SumOver(_, _)
SumOver(f, S) ==
  IF S = {} THEN 0 ELSE LET x == CHOOSE y \in S : TRUE IN f[x] + SumOver(f, S \ {x})

\* no coroutine is inside get_proxy or waiting for the response to a request
NoRequestInFlight ==
  \A i \in DOMAIN tasks : tasks[i].pc \notin {"probe", "update", "inflight"}

\* C14: whenever no request is in flight, the successful and failed requests
\* recorded add up to the attempts made, and so do rotations and total_used
C14_StatsAddUp ==
  NoRequestInFlight =>
    LET n == SumOver(attempts, AllUrls)
    IN /\ proxy_stats.successful_requests + proxy_stats.failed_requests = n
       /\ proxy_stats.rotations = n
       /\ proxy_stats.total_used = n

\* C15: no path under files/ is opened for writing for two URLs
C15_DistinctPaths ==
  \A f, g \in stored_files : f[1] = g[1] => f[2] = g[2]

\* the two coroutines of a batch download files of the same category and
\* base name at the same time, to different paths
C15_Witness ==
  /\ pc = "gather"
  /\ Len(tasks) = 2
  /\ tasks[1].pc = "download"
  /\ tasks[2].pc = "download"
  /\ tasks[1].url # tasks[2].url
  /\ Basename(tasks[1].url) = Basename(tasks[2].url)
  /\ get_file_category(tasks[1].url) = get_file_category(tasks[2].url)
  /\ \E f, g \in stored_files :
       f[2] = tasks[1].url /\ g[2] = tasks[2].url /\ f[1] # g[1]

\* C16: a write of text or metadata that raises does not end the crawl, and
\* is counted as an error
C16_WriteFailureNotFatal ==
  write_failed # {} => pc # "aborted" /\ errors > 0

\* the URLs in the order they were put on the queue, the seed first
PushOrder == <<base_url>> \o [k \in 1..Len(push_log) |-> push_log[k][2]]

\* the link depth a URL was discovered at: 0 for the seed, one more than that
\* of the page whose links put it on the queue
RECURSIVE Depth(_)
Depth(u) ==
  IF u = base_url THEN 0
  ELSE LET k == CHOOSE j \in 1..Len(push_log) : push_log[j][2] = u
       IN 1 + Depth(push_log[k][1])

\* C27: the frontier is first-in first-out: the URLs are dispatched in the
\* order they were pushed, whatever the order the coroutines of a batch
\* finish in, so no URL is dispatched before one found at a smaller depth
C27_DispatchInPushOrder ==
  /\ PushOrder = dispatch_log \o queue
  /\ \A i, j \in 1..Len(dispatch_log) :
       i < j => Depth(dispatch_log[i]) <= Depth(dispatch_log[j])

\* the two links of the start page were dispatched after it in one batch, in
\* the order they were pushed, and the second coroutine of the batch finished
\* before the first
C27_Witness ==
  /\ pc = "gather"
  /\ Len(tasks) = 2
  /\ tasks[2].pc = "done"
  /\ tasks[1].pc # "done"
  /\ dispatch_log = PushOrder
  /\ Len(dispatch_log) = 3
  /\ Depth(dispatch_log[3]) = 1

\* C23: with max_pages = 0 no URL is fetched and every count of the
\* crawl_stats.json written is zero: pages_crawled, pages_processed, the
\* downloaded files, errors and failed_urls
C23_ZeroPagesZeroStats ==
  (max_pages = 0 /\ pc = "done") =>
    /\ \A u \in AllUrls : attempts[u] = 0 /\ dispatched[u] = 0
    /\ stats_written = 1
    /\ pages_crawled = 0
    /\ pages_processed = 0
    /\ downloaded_files = {}
    /\ errors = 0
    /\ failed_urls = {}

\* C24: with download_files off no URL is processed as a file download: no
\* file is stored, no <md5>_file.json is written and downloaded_files stays
\* empty
C24_NoDownloadWhenOff ==
  ~download_files =>
    /\ \A i \in 1..Len(tasks) : tasks[i].pc # "download"
    /\ stored_files = {}
    /\ \A m \in meta_files : m[2] # "file"
    /\ downloaded_files = {}

\* a fixed site graph: the start page links to a page and to a file, and the
\* page links to a second file
SiteGraph ==
  [u \in AllUrls |->
     IF u = SeedBare THEN {HrefAQuery, HrefDoc}
     ELSE IF u = _normalize_url(SeedBare, HrefAQuery) THEN {HrefDoc2}
     ELSE {}]

\* the run got from every request the response of the fixed site graph
MockedRun ==
  /\ base_url = SeedBare
  /\ category_dirs
  /\ errors = 0
  /\ hr_none = {}
  /\ failed_urls = {}
  /\ \A r \in reads : r[2] = SiteGraph[r[1]]
  /\ \A u \in AllUrls :
       (dispatched[u] > 0 /\ ~is_downloadable_file(u)) => <<u, SiteGraph[u]>> \in reads

\* what crawl_stats.json reports of a run
RunResult ==
  [claimed |-> seen_urls, pages_processed |-> pages_processed,
   files |-> downloaded_files, failed |-> failed_urls]

\* the reference run on the fixed site graph takes the links of a page in
\* one fixed order
ReferenceOrder(S) == CHOOSE order \in Orders(S) : TRUE

\* the reference run: the URLs of a batch are processed
RECURSIVE ReferenceBatch(_, _)
ReferenceBatch(urls, r) ==
  IF urls = <<>> THEN r
  ELSE LET u == Head(urls)
       IN ReferenceBatch(Tail(urls),
            IF is_downloadable_file(u) THEN [r EXCEPT !.files = @ \cup {u}]
            ELSE IF SiteGraph[u] \in r.hashes THEN r
            ELSE [r EXCEPT !.hashes = @ \cup {SiteGraph[u]},
                           !.pages_processed = @ + 1,
                           !.kept = Append(@, u)])

\* the reference run: the links of the saved pages of a batch are queued
RECURSIVE ReferenceQueue(_, _)
ReferenceQueue(kept, r) ==
  IF kept = <<>> THEN r
  ELSE LET new == AppendNewLinks(r.queue, r.claimed,
                    ReferenceOrder(_extract_links(SiteGraph[Head(kept)], base_url)))
       IN ReferenceQueue(Tail(kept),
            [r EXCEPT !.queue = new.queue, !.claimed = new.seen_urls])

\* the reference run: the loop of crawl()
RECURSIVE ReferenceRun(_)
ReferenceRun(r) ==
  IF r.queue = <<>> \/ Cardinality(r.claimed) >= max_pages THEN r
  ELSE LET n == Min(concurrent_requests, Len(r.queue))
           fetched == ReferenceBatch(SubSeq(r.queue, 1, n),
                        [r EXCEPT !.queue = SubSeq(@, n + 1, Len(@)), !.kept = <<>>])
       IN ReferenceRun(ReferenceQueue(fetched.kept, fetched))

ReferenceResult ==
  LET r == ReferenceRun([queue |-> <<base_url>>, claimed |-> {base_url}, hashes |-> {},
                         pages_processed |-> 0, files |-> {}, kept |-> <<>>])
  IN [claimed |-> r.claimed, pages_processed |-> r.pages_processed, files |-> r.files,
      failed |-> {}]

\* C25: two runs on the same fixed site graph with the same configuration
\* report the same claimed URLs, pages_processed, downloaded files and
\* failed_urls, whatever the order the links of a page are returned in: every
\* run reports what the reference run does
C25_SameResultWhateverOrder ==
  (pc = "done" /\ MockedRun) => RunResult = ReferenceResult

----------------------------------------------------------------------------
(* Claims about the URL functions *)

\* C17: every link _extract_links returns, which crawl() puts on the queue,
\* has the domain of base_url as its host
C17_LinksStayOnDomain ==
  \A l \in extracted : Netloc(l) = Netloc(in_base)

\* the path holds one of the excluded words, or ends in an excluded suffix
PathExcluded(u) ==
  \/ \E k \in 1..Len(Path(u)) : Lower(Path(u)[k]) \in LoginWords
  \/ Path(u) # <<>> /\ Lower(Path(u)[Len(Path(u))]) \in ExcludedSuffixes

\* C18: a link on the domain of base_url is rejected exactly when its path
\* matches an excluded pattern, without regard to case, whatever the host is
C18_RejectedByPathOnly ==
  (fn_pc \in {"validated", "done"} /\ Netloc(normalized) = Netloc(in_base)) =>
    (valid <=> ~PathExcluded(normalized))

\* u and v differ in their query only
DifferInQuery(u, v) ==
  /\ Query(u) # Query(v)
  /\ <<Scheme(u), Netloc(u), Path(u), Fragment(u)>> = <<Scheme(v), Netloc(v), Path(v), Fragment(v)>>

\* u and v differ in the case of their host only
DifferInHostCase(u, v) ==
  /\ Netloc(u) # Netloc(v)
  /\ Lower(Netloc(u)) = Lower(Netloc(v))
  /\ <<Scheme(u), Path(u), Query(u), Fragment(u)>> = <<Scheme(v), Path(v), Query(v), Fragment(v)>>

\* C19: the normalized URL is scheme, lowercased host and path without
\* trailing slashes, without the fragment and with the query; URLs that differ
\* in the query only normalize differently, URLs that differ in the case of
\* the host only normalize to the same
C19_CanonicalForm ==
  (fn_pc # "input" /\ Netloc(urljoin(in_base, in_href)) # "") =>
    LET j == urljoin(in_base, in_href)
    IN /\ normalized = <<Scheme(j), Lower(Netloc(j)), RStripSlash(Path(j)), Query(j), "">>
       /\ \A h \in HrefInputs :
            /\ DifferInQuery(j, urljoin(in_base, h)) => _normalize_url(in_base, h) # normalized
            /\ DifferInHostCase(j, urljoin(in_base, h)) => _normalize_url(in_base, h) = normalized

\* the stripped length of what the backend m returns
StrippedLength(m) == Len(Strip(extract_method(backend_output[m])))

\* position of the backend m in the declared order
MethodRank(m) == CHOOSE k \in 1..Len(methods) : methods[k] = m

\* C22: extract_text_from_pdf returns the text and the name of the backend
\* with the greatest stripped length, the earliest declared one of those that
\* have it; ("", "") when every backend gives a blank text or raises; a
\* backend that raises does not keep the later ones from being tried
C22_BestBackendWins ==
  pdf_result # <<>> =>
    LET ms == {methods[k] : k \in 1..Len(methods)}
        top == {m \in ms : \A n \in ms : StrippedLength(m) >= StrippedLength(n)}
        first == CHOOSE m \in top : \A n \in top : MethodRank(m) <= MethodRank(n)
    IN IF \A m \in ms : StrippedLength(m) = 0
       THEN pdf_result = <<<<>>, "">>
       ELSE pdf_result = <<backend_output[first], first>>

\* the first backend raised, the two others tie for the greatest stripped
\* length with different texts, and the earlier of the two was returned
C22_Witness ==
  /\ pdf_result # <<>>
  /\ backend_output["pymupdf"] = Raises
  /\ backend_output["pypdf2"] # backend_output["ocr"]
  /\ StrippedLength("pypdf2") = StrippedLength("ocr")
  /\ StrippedLength("ocr") > 0
  /\ pdf_result = <<backend_output["pypdf2"], "pypdf2">>

\* the suffix the path of u is written with, lowercased: the last word of the
\* last component when it starts with a dot and a name stands before it
WrittenSuffix(u) ==
  LET p == RStripSlash(Path(u))
  IN IF Len(p) >= 2 /\ p[Len(p)] \in SuffixWords /\ p[Len(p) - 1] # "/"
     THEN Lower(p[Len(p)]) ELSE ""

Categories == DOMAIN downloadable_extensions

\* C21: get_file_category gives a URL whose path suffix, lowercased, is in the
\* table the category of the table that holds it, gives one whose suffix is
\* not in the table 'other', gives the same for URLs with the same suffix
\* whatever their host, query and fragment, and no suffix of the table is in
\* two categories
C21_CategoryBySuffix ==
  fn_pc = "classified" =>
    LET ext == WrittenSuffix(in_href)
    IN /\ \A c \in Categories : ext \in downloadable_extensions[c] => category = c
       /\ (ext # "" /\ \A c \in Categories : ext \notin downloadable_extensions[c])
            => category = "other"
       /\ ext # "" => category \in Categories
       /\ \A h \in HrefInputs : WrittenSuffix(h) = ext => get_file_category(h) = category
       /\ \A c, d \in Categories :
            c # d => downloadable_extensions[c] \cap downloadable_extensions[d] = {}

\* a URL whose suffix is written in capitals, with a query and a fragment, was
\* classified by the table
C21_Witness ==
  /\ fn_pc = "classified"
  /\ Path(in_href) # <<>>
  /\ Path(in_href)[Len(Path(in_href))] = ".PDF"
  /\ Query(in_href) # ""
  /\ Fragment(in_href) # ""
  /\ category = "document"

----------------------------------------------------------------------------
(* Claims about the thread-pool crawler *)

\* C29: in crawl_url of Crawler3.py the URL is recorded in the visited store
\* before its fetch starts, so no URL is requested while it is not recorded,
\* and two workers given the same URL never both fetch it
C29_ClaimBeforeFetch ==
  /\ unrecorded_gets = {}
  /\ \A u \in DepthUrls : url_gets[u] <= 1

\* C30: crawl() of Crawler3.py leaves its loop normally and only when the
\* queue is empty and no submitted crawl_url call is still running, so no URL
\* that a worker put on the queue is left on it
C30_LoopLeftWhenIdle ==
  crawl_pc # "loop" =>
    /\ crawl_pc = "completed"
    /\ depth_queue = <<>>
    /\ \A t \in 1..Len(crawl_tasks) : crawl_tasks[t].pc = "done"

\* C28: in crawler.py the visited test and the visited mark of crawl_page are
\* one step under the module lock: of the crawl_page calls given URLs with
\* the same canonical form exactly one goes on to fetch, and holding the
\* module lock while taking the lock of the DatabaseHandler never deadlocks
C28_OneClaimPerUrlNoDeadlock ==
  /\ \A u \in ThreadUrls :
       /\ claimed[u] <= 1
       /\ checked[u] >= 1 => claimed[u] = 1
       /\ page_gets[u] <= claimed[u]
       /\ Cardinality({w \in Slots : /\ workers[w].pc \in {"mark_db", "mark_insert", "get"}
                                     /\ normalize_url_of_path(workers[w].url) = u})
            + page_gets[u] <= 1
  /\ module_lock # 0 => workers[module_lock].pc \in
       {"check_db", "check_select", "mark_db", "mark_insert", "link_db", "link_select"}
  /\ db_lock # 0 => db_lock = module_lock
  /\ main_pc # "done" => ENABLED NextLocked

\* two crawl_page calls ran at the same time on two URLs with the same
\* canonical form; one of them marked it and fetched
C28_Witness ==
  \E u \in ThreadUrls :
    /\ checked[u] = 2
    /\ claimed[u] = 1
    /\ page_gets[u] = 1
    /\ \A w \in Slots : workers[w].pc = "finished"
    /\ workers[1].url # workers[2].url
    /\ normalize_url_of_path(workers[1].url) = u
    /\ normalize_url_of_path(workers[2].url) = u

\* robots.txt was unreachable, or one of the sitemaps it names gave an error
SitemapError ==
  \E k \in 1..Len(sitemap_log) : sitemap_log[k] \in SitemapErrors \cup {"robots_unreachable"}

\* the URLs that sitemaps without an error hold
LocsOfSoundSitemaps ==
  {u \in SitemapLocs : \E k \in 1..Len(sitemap_log) : sitemap_log[k] = "xml"}

\* C26: a sitemap error does not abort the crawl: when robots.txt or a sitemap
\* is unreachable, not XML or malformed, no URL is queued from it, the start
\* URL is crawled, and crawl() comes to its end
C26_SitemapErrorNotFatal ==
  /\ [](SitemapError =>
          /\ \A k \in 1..Len(sitemap_seeds) : sitemap_seeds[k] \in LocsOfSoundSitemaps
          /\ (\A k \in 1..Len(sitemap_log) : sitemap_log[k] # "xml") =>
               /\ sitemap_seeds = <<>>
               /\ (\A w \in Slots : workers[w].pc = "idle" /\ visited_urls = {}) =>
                    url_queue = <<start_url>>
          /\ main_pc = "done" => normalize_url(start_url) \in visited_urls)
  /\ (SitemapError ~> main_pc = "done")

\* a sitemap was malformed, another one gave a URL, and crawl() ended
C26_Witness ==
  /\ main_pc = "done"
  /\ sitemap_log = <<"malformed", "xml">>
  /\ sitemap_seeds # <<>>
  /\ normalize_url(start_url) \in visited_urls

\* C1: for every canonical URL at most one crawl_page call passes the
\* visited check and goes on to fetch it
C1_AtMostOneFetchPerUrl == \A u \in ThreadUrls : page_gets[u] <= 1

\* the GET requests sent for the URLs that normalize to the canonical URL c
RequestsFor(c) ==
  SumOver([u \in ThreadUrls |-> IF normalize_url(u) = c THEN http_gets[u] ELSE 0], ThreadUrls)

\* C31: a crawl_page call that passed the visited check sends one GET for its
\* page: the requests sent for a canonical URL are as many as the calls that
\* went on to fetch it
C31_OneGetPerClaim == \A c \in ThreadUrls : RequestsFor(c) = page_gets[c]

\* the coroutines of the batch that have not returned
InFlight == {i \in DOMAIN tasks : tasks[i].pc \notin {"done", "raised"}}

\* C32: the URLs in flight are never more than concurrent_requests, and a
\* batch is dispatched only when every coroutine of the batch before it has
\* returned
C32_PoolWidthAndBatches ==
  /\ [](Cardinality(InFlight) <= concurrent_requests)
  /\ [][dispatch_log' # dispatch_log => InFlight = {}]_vars

\* a batch after the first is in flight at the full width while URLs wait in
\* the queue
C32_Witness ==
  /\ pc = "gather"
  /\ Len(dispatch_log) >= 2
  /\ Cardinality(InFlight) = concurrent_requests
  /\ queue # <<>>

\* C33: with max_depth set to m >= 0 in Crawler3.py, no crawl_url call whose
\* depth is greater than m sends a GET; with max_depth = 0 the start URL
\* alone is fetched
C33_NoFetchBeyondMaxDepth ==
  max_depth # NoDepth => \A d \in get_depths : d <= max_depth

\* C34: crawl_page of Crawler2.py sends no GET for a URL whose host is not
\* the domain of the start URL, whatever <loc> entries the sitemaps hold
C34_FetchedOnDomain ==
  \A u \in ThreadUrls : http_gets[u] > 0 => Netloc(u) = local_domain

\* an absolute http(s) URL whose path has no suffix
NoSuffixInPath(u) ==
  /\ Scheme(u) \in {"http", "https"}
  /\ Netloc(u) # ""
  /\ PathSuffix(u) = ""

\* C35: in Code.py and crawler4.py a URL whose path has no suffix is
\* classified as not a file and _process_url gives it to _fetch_url, never to
\* the download of files
C35_NoSuffixIsPage ==
  (fn_pc = "routed" /\ NoSuffixInPath(in_href)) =>
    /\ string_category = "none"
    /\ route = "_fetch_url"

\* C36: the cursor of ProxyManager is an index of the proxy list whenever the
\* list is not empty, also after a refresh has put a shorter list in its
\* place, and get_proxy never indexes past the end of the list
C36_CursorInsideList ==
  /\ proxies # <<>> => current_index < Len(proxies)
  /\ last_given # <<"IndexError">>

\* C37: with max_pages >= 1, when crawl() has terminated the start URL has
\* been dispatched to a coroutine, which has returned, after it requested
\* the URL when max_retries allows a request
C37_SeedDispatched ==
  (pc = "done" /\ max_pages >= 1) =>
    /\ dispatched[base_url] = 1
    /\ base_url \in returned
    /\ max_retries >= 1 => attempts[base_url] >= 1

\* C38: when crawl() has terminated, pages_crawled is the number of URLs that
\* were dispatched, and no claimed URL is left in the queue
C38_CrawledEqualsDispatched ==
  pc = "done" =>
    /\ pages_crawled = Len(dispatch_log)
    /\ queue = <<>>

====
